---------------------------- MODULE Spec2Model ----------------------------
(***************************************************************************)
(* Behavioural pattern detection engine of Tensor-Trade:                   *)
(*   src/agents/behaviour_agent.py  BehaviorMonitorAgent                   *)
(*   src/agents/narrator.py         NarratorAgent (risk score, readiness)  *)
(*                                                                         *)
(* Conventions of the model                                                *)
(*  - A timestamp string "YYYY-MM-DD HH:MM:SS" is the tuple <<HH, MM, SS>> *)
(*    of its two-digit fields (the date is the same for a whole session).  *)
(*    Python compares the strings character by character, which for        *)
(*    fixed-width fields is the lexicographic order of the tuples; a field *)
(*    out of range ("09:61:00") still sorts by its digits but does not     *)
(*    parse.                                                               *)
(*  - Times are whole seconds; the code's float minutes (seconds / 60) are *)
(*    compared by cross-multiplying.                                       *)
(*  - Tendencies and confidences are hundredths (0.75 is 75).              *)
(*  - A dict is a record or a function over its keys; None is NoneValue.  *)
(*  - The "details" text of a detector's insight is the record of the      *)
(*    values the f-string interpolates.                                    *)
(***************************************************************************)
EXTENDS Integers, Sequences, FiniteSets, TLC

VARIABLES
    check_revenge_trading,     \* BehaviorMonitorAgent attributes
    check_overtrading,
    check_emotional_patterns,
    trades,                    \* the list the caller passes to analyze_session
    called,                    \* detector methods analyze_session invoked, in order
    insights,                  \* list returned by analyze_session / read by the narrator
    risk_score,                \* calculate_risk_score result / assess input
    readiness,                 \* assess_market_readiness result
    current_session_state,     \* predict_next_risk arguments
    historical_tendencies,
    prediction,                \* predict_next_risk result
    earlier,                   \* the caller's record of its earlier analyze_session calls
    pc                         \* position of the caller

vars == <<check_revenge_trading, check_overtrading, check_emotional_patterns,
          trades, called, insights, risk_score, readiness,
          current_session_state, historical_tendencies, prediction, earlier, pc>>

-----------------------------------------------------------------------------
(* Python values *)

NoneValue == [none |-> TRUE]

ValueError == -1

Min(a, b) == IF a <= b THEN a ELSE b

Max(a, b) == IF a >= b THEN a ELSE b

\* dict.get(key, default)
Get(d, key, default) == IF key \in DOMAIN d THEN d[key] ELSE default

\* int(x / y) for y > 0: truncation toward zero
IntTrunc(x, y) == IF x >= 0 THEN x \div y ELSE -((-x) \div y)

\* x / y (y > 0) rounded to the nearest integer; an exact half goes up
RoundHalfUp(x, y) == (2 * x + y) \div (2 * y)

RECURSIVE SumSeq(_)
SumSeq(s) == IF s = <<>> THEN 0 ELSE s[1] + SumSeq(Tail(s))

-----------------------------------------------------------------------------
(* Timestamps *)

\* A timestamp "YYYY-MM-DD HH:MM:SS" of one day is written <<HH, MM, SS>>.
\* strptime also takes a field written without its leading zero ("10:5:00"):
\* such a string is written <<HH, MM, SS, k>>, k the position of that field.

\* datetime.strptime(ts, "%Y-%m-%d %H:%M:%S") as seconds of the day
strptime(ts) ==
    IF ts[1] \in 0..23 /\ ts[2] \in 0..59 /\ ts[3] \in 0..59
    THEN ts[1] * 3600 + ts[2] * 60 + ts[3]
    ELSE ValueError

\* the characters of the time of day of a timestamp string, a digit as
\* itself and ':' as 10 (':' sorts after every digit)
Chars(ts) ==
    LET field(i) == IF Len(ts) = 4 /\ ts[4] = i /\ ts[i] < 10
                    THEN <<ts[i]>>
                    ELSE <<ts[i] \div 10, ts[i] % 10>>
    IN  field(1) \o <<10>> \o field(2) \o <<10>> \o field(3)

\* str.__lt__ on two timestamp strings: two strings of two-digit fields
\* compare as their fields do, any others character by character
StrLess(a, b) ==
    IF Len(a) = 3 /\ Len(b) = 3
    THEN \/ a[1] < b[1]
         \/ a[1] = b[1] /\ a[2] < b[2]
         \/ a[1] = b[1] /\ a[2] = b[2] /\ a[3] < b[3]
    ELSE LET x == Chars(a)
             y == Chars(b)
             differ == {k \in 1..Min(Len(x), Len(y)) : x[k] # y[k]}
         IN  IF differ = {} THEN Len(x) < Len(y)
             ELSE x[CHOOSE k \in differ : \A j \in differ : k <= j]
                    < y[CHOOSE k \in differ : \A j \in differ : k <= j]

\* variant: the caller's order is kept (no sort)
unsorted(s) == s

\* sorted(trades, key=lambda x: x['timestamp']): stable, ascending
RECURSIVE sorted(_)
sorted(s) ==
    IF s = <<>> THEN <<>>
    ELSE LET n    == Len(s)
             rest == sorted(SubSeq(s, 1, n - 1))
             x    == s[n]
             k    == Cardinality({j \in 1..(n - 1) :
                                    ~StrLess(x.timestamp, rest[j].timestamp)})
         IN  SubSeq(rest, 1, k) \o <<x>> \o SubSeq(rest, k + 1, n - 1)

-----------------------------------------------------------------------------
(* Pattern detection methods *)

\* variant: `if time_diff < 10`
revenge_window_strict(seconds) == seconds < 10 * 60

\* `if time_diff <= 10` with time_diff in minutes
revenge_window(seconds) == seconds <= 10 * 60

RECURSIVE RevengeLoop(_, _, _, _)
RevengeLoop(ts, i, consecutive_losses, loss_timestamps) ==
    IF i > Len(ts) THEN NoneValue
    ELSE IF ts[i].pnl < 0
         THEN LET cl == consecutive_losses + 1
                  t  == strptime(ts[i].timestamp)
              IN  IF t = ValueError
                  THEN RevengeLoop(ts, i + 1, cl, loss_timestamps)
                  ELSE LET lt == Append(loss_timestamps, t)
                           n  == Len(lt)
                       IN  IF cl >= 3 /\ n >= 3 /\ revenge_window(lt[n] - lt[n - 2])
                           THEN [type |-> "Revenge Trading",
                                 severity |-> "High",
                                 details |-> [consecutive_losses |-> cl,
                                              minutes |-> IntTrunc(lt[n] - lt[n - 2], 60)]]
                           ELSE RevengeLoop(ts, i + 1, cl, lt)
         ELSE RevengeLoop(ts, i + 1, 0, <<>>)

detect_revenge_trading(ts) == RevengeLoop(ts, 1, 0, <<>>)

\* variant: `if len(trades) >= 10`
detect_overtrading_inclusive(ts) ==
    IF Len(ts) >= 10
    THEN [type |-> "Overtrading", severity |-> "Medium",
          details |-> [count |-> Len(ts)]]
    ELSE NoneValue

detect_overtrading(ts) ==
    IF Len(ts) > 10
    THEN [type |-> "Overtrading", severity |-> "Medium",
          details |-> [count |-> Len(ts)]]
    ELSE NoneValue

\* both timestamps of the adjacent pair (i, i+1) parse
PairParses(ts, i) ==
    /\ strptime(ts[i].timestamp) # ValueError
    /\ strptime(ts[i + 1].timestamp) # ValueError

\* (t2 - t1).total_seconds() of the adjacent pair (i, i+1)
Gap(ts, i) == strptime(ts[i + 1].timestamp) - strptime(ts[i].timestamp)

detect_fomo_trading(ts) ==
    IF \E i \in 1..(Len(ts) - 2) :
          /\ ts[i].pnl > 0
          /\ PairParses(ts, i)
          /\ Gap(ts, i) <= 5 * 60
          /\ ts[i].symbol = ts[i + 1].symbol
    THEN [type |-> "FOMO Trading", severity |-> "Medium",
          details |-> [text |-> "Detected rapid re-entry on same asset after a win."]]
    ELSE NoneValue

\* variant: `trade['pnl'] <= -150`
RECURSIVE EgoLoopInclusive(_, _, _)
EgoLoopInclusive(ts, i, wins_streak) ==
    IF i > Len(ts) THEN NoneValue
    ELSE IF ts[i].pnl > 0
         THEN EgoLoopInclusive(ts, i + 1, wins_streak + 1)
         ELSE IF wins_streak >= 2 /\ ts[i].pnl <= -150
              THEN [type |-> "Ego Trading", severity |-> "High",
                    details |-> [wins_streak |-> wins_streak, loss |-> -ts[i].pnl]]
              ELSE EgoLoopInclusive(ts, i + 1, 0)

RECURSIVE EgoLoop(_, _, _)
EgoLoop(ts, i, wins_streak) ==
    IF i > Len(ts) THEN NoneValue
    ELSE IF ts[i].pnl > 0
         THEN EgoLoop(ts, i + 1, wins_streak + 1)
         ELSE IF wins_streak >= 2 /\ ts[i].pnl < -150
              THEN [type |-> "Ego Trading", severity |-> "High",
                    details |-> [wins_streak |-> wins_streak, loss |-> -ts[i].pnl]]
              ELSE EgoLoop(ts, i + 1, 0)

detect_ego_trading(ts) == EgoLoop(ts, 1, 0)

\* variant: the counter is reset by a pair more than 60 seconds apart, so
\* that only an unbroken run of three rapid pairs fires
detect_impulsive_decisions_run(ts) ==
    LET rapid(i) == PairParses(ts, i) /\ Gap(ts, i) <= 60
    IN  IF \E i \in 1..(Len(ts) - 3) : rapid(i) /\ rapid(i + 1) /\ rapid(i + 2)
        THEN [type |-> "Impulsive Decisions", severity |-> "Medium",
              details |-> [rapid_trades |-> 3]]
        ELSE NoneValue

detect_impulsive_decisions(ts) ==
    LET rapid_trades == Cardinality({i \in 1..(Len(ts) - 1) :
                                       PairParses(ts, i) /\ Gap(ts, i) <= 60})
    IN  IF rapid_trades >= 3
        THEN [type |-> "Impulsive Decisions", severity |-> "Medium",
              details |-> [rapid_trades |-> rapid_trades]]
        ELSE NoneValue

\* variant: `win_rate > 40`, as the docstring words it
detect_calculated_risk_strict(ts) ==
    IF Len(ts) < 3 THEN NoneValue
    ELSE LET n      == Len(ts)
             wins   == Cardinality({i \in 1..n : ts[i].pnl > 0})
         IN  IF wins * 100 > 40 * n /\ \A i \in 1..n : ts[i].pnl >= -200
             THEN [type |-> "Calculated Risk", severity |-> "Positive",
                   details |-> [win_rate |-> RoundHalfUp(wins * 1000, n)]]
             ELSE NoneValue

detect_calculated_risk(ts) ==
    IF Len(ts) < 3 THEN NoneValue
    ELSE LET n      == Len(ts)
             wins   == Cardinality({i \in 1..n : ts[i].pnl > 0})
             losses == {ts[i].pnl : i \in {j \in 1..n : ts[j].pnl < 0}}
             max_loss == IF losses = {} THEN 0
                         ELSE CHOOSE m \in losses : \A l \in losses : m <= l
         IN  IF wins * 100 >= 40 * n /\ max_loss >= -200
             THEN [type |-> "Calculated Risk", severity |-> "Positive",
                   \* win_rate:.1f, in tenths of a percent
                   details |-> [win_rate |-> RoundHalfUp(wins * 1000, n)]]
             ELSE NoneValue

\* the durations (seconds) the loss-aversion and quick-profit loops collect:
\* pairs (i, i+1) with trades[i] OPEN, same symbol, both timestamps parsing,
\* split by the sign of trades[i+1].pnl
RECURSIVE Durations(_, _, _)
Durations(ts, i, sign) ==
    IF i > Len(ts) - 1 THEN <<>>
    ELSE LET rest == Durations(ts, i + 1, sign)
         IN  IF /\ ts[i].status = "OPEN"
                /\ ts[i + 1].symbol = ts[i].symbol
                /\ PairParses(ts, i)
                /\ (IF sign < 0 THEN ts[i + 1].pnl < 0 ELSE ts[i + 1].pnl > 0)
             THEN <<Gap(ts, i)>> \o rest
             ELSE rest

\* Durations are doubles, seconds / 60, and an average is the double sum of
\* the list divided by its length.  On whole minutes the doubles are exact.
\* On the durations of 18, 36 and 54 seconds (0.3, 0.6 and 0.9 minutes, none
\* of them a double) they differ from the exact quotients in two places:
\* the average of 0.3 and 0.6 is computed as 0.44999999999999996, below 0.45,
AvgRoundsBelow(durations) == durations \in {<<18, 36>>, <<36, 18>>}

\* and an average of 0.3 times 3 is 0.8999999999999999, below 0.9.
TripleRoundsBelow(durations) ==
    durations # <<>> /\ \A i \in 1..Len(durations) : durations[i] = 18

\* f"{avg:.1f}" of sum(durations)/len(durations) minutes, in tenths of a minute
AvgTenths(durations) ==
    LET x == SumSeq(durations) * 10
        y == 60 * Len(durations)
    IN  IF AvgRoundsBelow(durations) /\ (2 * x) % (2 * y) = y
        THEN x \div y
        ELSE RoundHalfUp(x, y)

\* `avg_loss > avg_win * k` for the averages of two non-empty duration lists:
\* the exact comparison, except that when the loss average equals k times
\* the win average the rounding of the doubles decides
exceeds(avg_loss, avg_win, k) ==
    LET l == SumSeq(avg_loss) * Len(avg_win)
        w == k * SumSeq(avg_win) * Len(avg_loss)
    IN  IF l # w THEN l > w
        ELSE /\ ~AvgRoundsBelow(avg_loss)
             /\ \/ AvgRoundsBelow(avg_win)
                \/ k = 3 /\ TripleRoundsBelow(avg_win)

detect_loss_aversion(ts) ==
    LET losing_duration  == Durations(ts, 1, -1)
        winning_duration == Durations(ts, 1, 1)
    IN  IF /\ losing_duration # <<>>
           /\ winning_duration # <<>>
           \* avg_loss > avg_win * 2
           /\ exceeds(losing_duration, winning_duration, 2)
        THEN [type |-> "Loss Aversion", severity |-> "High",
              details |-> [avg_loss |-> AvgTenths(losing_duration),
                           avg_win |-> AvgTenths(winning_duration)]]
        ELSE NoneValue

detect_quick_profit_taking(ts) ==
    LET winning_duration == Durations(ts, 1, 1)
        losing_duration  == Durations(ts, 1, -1)
    IN  IF /\ winning_duration # <<>>
           /\ losing_duration # <<>>
           \* avg_loss > avg_win * 3 and avg_win < 3
           /\ exceeds(losing_duration, winning_duration, 3)
           /\ SumSeq(winning_duration) < 3 * 60 * Len(winning_duration)
        THEN [type |-> "Quick Profit Taking", severity |-> "Medium",
              details |-> [avg_win |-> AvgTenths(winning_duration),
                           avg_loss |-> AvgTenths(losing_duration)]]
        ELSE NoneValue

\* variant: the third trade must be on the same symbol too
detect_averaging_down_same_symbol(ts) ==
    LET hits == {i \in 1..(Len(ts) - 2) :
                   /\ ts[i].pnl < 0
                   /\ ts[i + 1].symbol = ts[i].symbol
                   /\ ts[i + 1].action = "BUY"
                   /\ ts[i + 2].symbol = ts[i].symbol
                   /\ ts[i + 2].pnl < 0}
    IN  IF hits = {} THEN NoneValue
        ELSE LET first == CHOOSE i \in hits : \A j \in hits : i <= j
             IN  [type |-> "Averaging Down", severity |-> "High",
                  details |-> [symbol |-> ts[first].symbol]]

\* variant: the scan keeps the last qualifying triple instead of returning
\* at the first
detect_averaging_down_last(ts) ==
    LET hits == {i \in 1..(Len(ts) - 2) :
                   /\ ts[i].pnl < 0
                   /\ ts[i + 1].symbol = ts[i].symbol
                   /\ ts[i + 1].action = "BUY"
                   /\ ts[i + 2].pnl < 0}
    IN  IF hits = {} THEN NoneValue
        ELSE LET last == CHOOSE i \in hits : \A j \in hits : i >= j
             IN  [type |-> "Averaging Down", severity |-> "High",
                  details |-> [symbol |-> ts[last].symbol]]

detect_averaging_down(ts) ==
    LET hits == {i \in 1..(Len(ts) - 2) :
                   /\ ts[i].pnl < 0
                   /\ ts[i + 1].symbol = ts[i].symbol
                   /\ ts[i + 1].action = "BUY"
                   /\ ts[i + 2].pnl < 0}
    IN  IF hits = {} THEN NoneValue
        ELSE LET first == CHOOSE i \in hits : \A j \in hits : i <= j
             IN  [type |-> "Averaging Down", severity |-> "High",
                  details |-> [symbol |-> ts[first].symbol]]

\* variant: a gap of exactly 60 minutes counts (`>= 60`)
detect_hesitation_inclusive(ts) ==
    LET large_gaps == Cardinality({i \in 1..(Len(ts) - 1) :
                                     PairParses(ts, i) /\ Gap(ts, i) >= 60 * 60})
    IN  IF Len(ts) > 3 /\ 10 * large_gaps >= 3 * (Len(ts) - 1)
        THEN [type |-> "Hesitation / Analysis Paralysis", severity |-> "Medium",
              details |-> [large_gaps |-> large_gaps]]
        ELSE NoneValue

detect_hesitation(ts) ==
    LET large_gaps == Cardinality({i \in 1..(Len(ts) - 1) :
                                     PairParses(ts, i) /\ Gap(ts, i) > 60 * 60})
    IN  \* large_gaps >= (len(trades) - 1) * 0.3
        IF Len(ts) > 3 /\ 10 * large_gaps >= 3 * (Len(ts) - 1)
        THEN [type |-> "Hesitation / Analysis Paralysis", severity |-> "Medium",
              details |-> [large_gaps |-> large_gaps]]
        ELSE NoneValue

-----------------------------------------------------------------------------
(* BehaviorMonitorAgent.analyze_session *)

\* `if result: insights.append(result)`
Appended(result) == IF result = NoneValue THEN <<>> ELSE <<result>>

NoActivity ==
    [type |-> "No Activity", details |-> [text |-> "No trades recorded in this session."]]

Disciplined ==
    [type |-> "Disciplined",
     details |-> [text |-> "No negative patterns detected. Good adherence to plan."]]

\* variant: _detect_averaging_down listed before _detect_loss_aversion
emotional_patterns_reordered(sorted_trades) ==
       Appended(detect_fomo_trading(sorted_trades))
    \o Appended(detect_ego_trading(sorted_trades))
    \o Appended(detect_impulsive_decisions(sorted_trades))
    \o Appended(detect_calculated_risk(sorted_trades))
    \o Appended(detect_averaging_down(sorted_trades))
    \o Appended(detect_loss_aversion(sorted_trades))
    \o Appended(detect_quick_profit_taking(sorted_trades))
    \o Appended(detect_hesitation(sorted_trades))

\* the insights of the emotional pattern suite, in the order of patterns_to_check
emotional_patterns(sorted_trades) ==
       Appended(detect_fomo_trading(sorted_trades))
    \o Appended(detect_ego_trading(sorted_trades))
    \o Appended(detect_impulsive_decisions(sorted_trades))
    \o Appended(detect_calculated_risk(sorted_trades))
    \o Appended(detect_loss_aversion(sorted_trades))
    \o Appended(detect_quick_profit_taking(sorted_trades))
    \o Appended(detect_averaging_down(sorted_trades))
    \o Appended(detect_hesitation(sorted_trades))

\* variant: the `if not insights` fallback runs before the emotional suite
analyze_session_early_fallback(self, ts) ==
    IF ts = <<>> THEN <<NoActivity>>
    ELSE LET sorted_trades == sorted(ts)
             first ==
                   (IF self.check_revenge_trading
                    THEN Appended(detect_revenge_trading(sorted_trades)) ELSE <<>>)
                \o (IF self.check_overtrading
                    THEN Appended(detect_overtrading(sorted_trades)) ELSE <<>>)
         IN     (IF first = <<>> THEN <<Disciplined>> ELSE first)
             \o (IF self.check_emotional_patterns
                 THEN emotional_patterns(sorted_trades) ELSE <<>>)

\* variant: no `if not trades` early return
analyze_session_no_guard(self, ts) ==
    LET sorted_trades == sorted(ts)
        found ==
              (IF self.check_revenge_trading
               THEN Appended(detect_revenge_trading(sorted_trades)) ELSE <<>>)
           \o (IF self.check_overtrading
               THEN Appended(detect_overtrading(sorted_trades)) ELSE <<>>)
           \o (IF self.check_emotional_patterns
               THEN emotional_patterns(sorted_trades) ELSE <<>>)
    IN  IF found = <<>> THEN <<Disciplined>> ELSE found

\* variant: the overtrading check nested inside `if self.check_revenge_trading`
analyze_session_nested_switch(self, ts) ==
    IF ts = <<>> THEN <<NoActivity>>
    ELSE LET sorted_trades == sorted(ts)
             found ==
                   (IF self.check_revenge_trading
                    THEN    Appended(detect_revenge_trading(sorted_trades))
                         \o (IF self.check_overtrading
                             THEN Appended(detect_overtrading(sorted_trades)) ELSE <<>>)
                    ELSE <<>>)
                \o (IF self.check_emotional_patterns
                    THEN emotional_patterns(sorted_trades) ELSE <<>>)
         IN  IF found = <<>> THEN <<Disciplined>> ELSE found

\* variant: `trades.sort(key=lambda x: x['timestamp'])`, the caller's list
\* sorted in place
argument_sorted_in_place(ts) == sorted(ts)

\* the caller's list after the call: sorted() builds a new list, and no
\* detector assigns to a trade or to the list it is handed
argument_after(ts) == ts

\* self is the agent: its three switches
analyze_session(self, ts) ==
    IF ts = <<>> THEN <<NoActivity>>
    ELSE LET sorted_trades == sorted(ts)
             found ==
                   (IF self.check_revenge_trading
                    THEN Appended(detect_revenge_trading(sorted_trades)) ELSE <<>>)
                \o (IF self.check_overtrading
                    THEN Appended(detect_overtrading(sorted_trades)) ELSE <<>>)
                \o (IF self.check_emotional_patterns
                    THEN emotional_patterns(sorted_trades) ELSE <<>>)
         IN  IF found = <<>> THEN <<Disciplined>> ELSE found

\* the detector methods one analyze_session call invokes, in call order
detectors_called(self, ts) ==
    IF ts = <<>> THEN <<>>
    ELSE   (IF self.check_revenge_trading THEN <<"_detect_revenge_trading">> ELSE <<>>)
        \o (IF self.check_overtrading THEN <<"_detect_overtrading">> ELSE <<>>)
        \o (IF self.check_emotional_patterns
            THEN <<"_detect_fomo_trading", "_detect_ego_trading",
                   "_detect_impulsive_decisions", "_detect_calculated_risk",
                   "_detect_loss_aversion", "_detect_quick_profit_taking",
                   "_detect_averaging_down", "_detect_hesitation">>
            ELSE <<>>)

-----------------------------------------------------------------------------
(* NarratorAgent *)

\* severity_weights.get(insight.get('severity', 'Medium'), 10)
\* variant: `insight.get('severity', 'N/A')`, a missing severity weighed as
\* an unlisted one
severity_weight_unlisted(insight) ==
    LET severity == Get(insight, "severity", "N/A")
    IN  CASE severity = "High"     -> 25
          [] severity = "Medium"   -> 15
          [] severity = "Positive" -> -20
          [] OTHER                 -> 10

severity_weight(insight) ==
    LET severity == Get(insight, "severity", "Medium")
    IN  CASE severity = "High"     -> 25
          [] severity = "Medium"   -> 15
          [] severity = "Positive" -> -20
          [] OTHER                 -> 10

RECURSIVE RiskLoop(_, _, _)
RiskLoop(behavioral_insights, i, score) ==
    IF i > Len(behavioral_insights) THEN score
    ELSE RiskLoop(behavioral_insights, i + 1,
                  score + severity_weight(behavioral_insights[i]))

\* variant: the score is clamped to [0, 100] after every insight
RECURSIVE RiskLoopClamped(_, _, _)
RiskLoopClamped(behavioral_insights, i, score) ==
    IF i > Len(behavioral_insights) THEN score
    ELSE RiskLoopClamped(behavioral_insights, i + 1,
             Max(0, Min(100, score + severity_weight(behavioral_insights[i]))))

calculate_risk_score_stepwise(behavioral_insights) ==
    RiskLoopClamped(behavioral_insights, 1, 0)

calculate_risk_score(behavioral_insights) ==
    Max(0, Min(100, RiskLoop(behavioral_insights, 1, 0)))

\* variant: all(p in pattern_types for p in critical_patterns)
has_critical_all(pattern_types) ==
    \A p \in {"Revenge Trading", "Ego Trading", "Averaging Down"} : p \in pattern_types

\* any(p in pattern_types for p in critical_patterns)
has_critical(pattern_types) ==
    LET critical_patterns == {"Revenge Trading", "Ego Trading", "Averaging Down"}
    IN  \E p \in critical_patterns : p \in pattern_types

assess_market_readiness(score, behavioral_insights) ==
    LET pattern_types == {behavioral_insights[i].type :
                             i \in 1..Len(behavioral_insights)}
    IN  IF score >= 60 \/ has_critical(pattern_types)
        THEN [ready |-> FALSE, recommendation |-> "STOP TRADING",
              reason |-> "High-risk emotional patterns detected. Take a break, review your plan, and return when calm."]
        ELSE IF score >= 40
        THEN [ready |-> TRUE, recommendation |-> "TRADE WITH CAUTION",
              reason |-> "Some concerning patterns detected. Reduce position sizes and stick strictly to your trading plan."]
        ELSE IF "Calculated Risk" \in pattern_types
        THEN [ready |-> TRUE, recommendation |-> "CONTINUE TRADING",
              reason |-> "Disciplined behavior with good risk management. Maintain your current approach."]
        ELSE [ready |-> TRUE, recommendation |-> "PROCEED CAREFULLY",
              reason |-> "No major red flags, but stay vigilant and follow your trading rules."]

-----------------------------------------------------------------------------
(* BehaviorMonitorAgent.predict_next_risk *)

\* `if historical_tendencies:` - a dict that is neither None nor empty
Truthy(d) == d # NoneValue /\ DOMAIN d # {}

\* variant: a baseline of 0.5 when no priors are given
tendencies_baseline_half(ht) ==
    IF Truthy(ht)
    THEN [revenge   |-> Get(ht, "revenge_trading_tendency", 0),
          fomo      |-> Get(ht, "fomo_tendency", 0),
          ego       |-> Get(ht, "ego_trading_tendency", 0),
          impulsive |-> Get(ht, "impulsive_tendency", 0)]
    ELSE [revenge |-> 50, fomo |-> 50, ego |-> 50, impulsive |-> 50]

\* the four tendencies the rules read (hundredths)
tendencies(ht) ==
    IF Truthy(ht)
    THEN [revenge   |-> Get(ht, "revenge_trading_tendency", 0),
          fomo      |-> Get(ht, "fomo_tendency", 0),
          ego       |-> Get(ht, "ego_trading_tendency", 0),
          impulsive |-> Get(ht, "impulsive_tendency", 0)]
    ELSE [revenge |-> 30, fomo |-> 30, ego |-> 30, impulsive |-> 30]

\* variant: no min(1.0, ...) cap
revenge_confidence_uncapped(revenge_tendency, consecutive_losses) ==
    revenge_tendency + consecutive_losses * 15

\* min(1.0, revenge_tendency + (consecutive_losses * 0.15))
revenge_confidence(revenge_tendency, consecutive_losses) ==
    Min(100, revenge_tendency + consecutive_losses * 15)

\* variant: the ego check nested inside the FOMO check
risk_checks_nested(state, ht) ==
    LET consecutive_losses == Get(state, "consecutive_losses", 0)
        consecutive_wins   == Get(state, "consecutive_wins", 0)
        trades_recent      == Get(state, "trades_in_last_hour", 0)
        t                  == tendencies(ht)
        fomo               == consecutive_wins >= 2 /\ t.fomo > 40
    IN     (IF consecutive_losses >= 2 /\ (t.revenge > 50 \/ consecutive_losses >= 3)
            THEN <<[pattern |-> "Revenge Trading",
                    confidence |-> Min(100, t.revenge + consecutive_losses * 15)]>>
            ELSE <<>>)
        \o (IF fomo
            THEN <<[pattern |-> "FOMO Trading", confidence |-> t.fomo]>> ELSE <<>>)
        \o (IF fomo /\ consecutive_wins >= 3 /\ t.ego > 40
            THEN <<[pattern |-> "Ego Trading", confidence |-> t.ego]>> ELSE <<>>)
        \o (IF trades_recent >= 5 /\ t.impulsive > 40
            THEN <<[pattern |-> "Impulsive Trading", confidence |-> t.impulsive]>>
            ELSE <<>>)

\* the (pattern, confidence) pairs appended by the four checks, in code order
risk_checks(state, ht) ==
    LET consecutive_losses == Get(state, "consecutive_losses", 0)
        consecutive_wins   == Get(state, "consecutive_wins", 0)
        trades_recent      == Get(state, "trades_in_last_hour", 0)
        t                  == tendencies(ht)
    IN     (IF consecutive_losses >= 2 /\ (t.revenge > 50 \/ consecutive_losses >= 3)
            THEN <<[pattern |-> "Revenge Trading",
                    confidence |-> revenge_confidence(t.revenge, consecutive_losses)]>>
            ELSE <<>>)
        \o (IF consecutive_wins >= 2 /\ t.fomo > 40
            THEN <<[pattern |-> "FOMO Trading", confidence |-> t.fomo]>> ELSE <<>>)
        \o (IF consecutive_wins >= 3 /\ t.ego > 40
            THEN <<[pattern |-> "Ego Trading", confidence |-> t.ego]>> ELSE <<>>)
        \o (IF trades_recent >= 5 /\ t.impulsive > 40
            THEN <<[pattern |-> "Impulsive Trading", confidence |-> t.impulsive]>>
            ELSE <<>>)

\* round(total / n, 2) in hundredths, total being a sum of hundredths.  When
\* the quotient lies exactly halfway between two hundredths the binary double
\* nearest to it decides the direction (0.455 -> 0.45, 0.625 -> 0.62);
\* tie_up is that direction.
round2(total, n, tie_up) ==
    LET q == total \div n
        r == total % n
    IN  IF 2 * r < n THEN q
        ELSE IF 2 * r > n THEN q + 1
        ELSE IF tie_up THEN q + 1 ELSE q

\* variant: avg_confidence >= 0.7 and >= 0.5
risk_level_inclusive(n, total) ==
    IF n >= 2 \/ (n > 0 /\ total >= 70 * n) THEN "high"
    ELSE IF n >= 1 \/ (n > 0 /\ total >= 50 * n) THEN "medium"
    ELSE "low"

\* variant: `if avg_confidence > 0.7`, the high rule without its count
\* disjunct
risk_level_high_by_mean(n, total) ==
    IF n > 0 /\ total > 70 * n THEN "high"
    ELSE IF n >= 1 \/ (n > 0 /\ total > 50 * n) THEN "medium"
    ELSE "low"

\* variant: `elif avg_confidence > 0.5`, the medium rule without its count
\* disjunct
risk_level_mean_only(n, total) ==
    IF n >= 2 \/ (n > 0 /\ total > 70 * n) THEN "high"
    ELSE IF n > 0 /\ total > 50 * n THEN "medium"
    ELSE "low"

\* the risk level of n predictions whose confidences sum to total:
\* avg_confidence = total / n if n else 0.0, and avg > 0.7 is total > 70 n
risk_level(n, total) ==
    IF n >= 2 \/ (n > 0 /\ total > 70 * n) THEN "high"
    ELSE IF n >= 1 \/ (n > 0 /\ total > 50 * n) THEN "medium"
    ELSE "low"

predict_next_risk(state, ht, tie_up) ==
    LET fired == risk_checks(state, ht)
        high_risk_predictions == [i \in 1..Len(fired) |-> fired[i].pattern]
        confidence_scores     == [i \in 1..Len(fired) |-> fired[i].confidence]
        n     == Len(confidence_scores)
        total == SumSeq(confidence_scores)
        level == risk_level(n, total)
    IN  [high_risk_predictions |-> high_risk_predictions,
         risk_level |-> level,
         confidence |-> IF n = 0 THEN 0 ELSE round2(total, n, tie_up),
         recommended_action |->
            CASE level = "high" ->
                   "STOP: Do not take the next trade. Take a 15-minute break."
              [] level = "medium" ->
                   "CAUTION: Reduce position size by 50% and stick strictly to your plan."
              [] OTHER -> "Continue trading with normal risk management"]

-----------------------------------------------------------------------------
(* Inputs *)

MaxTrades == 4          \* longest session of Spec drawn from SessionPool
MaxLongTrades == 11     \* longest session of Spec drawn from LongPool
MaxRevengeTrades == 4   \* longest session of SpecRevenge
MaxOrderTrades == 3     \* longest session of SpecOrder
MaxInsights == 5        \* longest insight list of SpecScore
MaxAssessInsights == 2  \* longest insight list of SpecAssess
MaxLosses == 4          \* largest consecutive_losses of SpecPredict
MaxWins == 3            \* largest consecutive_wins of SpecPredict
MaxRecent == 5          \* largest trades_in_last_hour of SpecPredict
MaxCalls == 3           \* most analyze_session calls one caller of SpecRepeat makes

Trade(ts, symbol, action, pnl, status) ==
    [timestamp |-> ts, symbol |-> symbol, action |-> action, price |-> 100,
     pnl |-> pnl, status |-> status]

\* all lists of at most n elements of pool
Lists(pool, n) == UNION {[1..k -> pool] : k \in 0..n}

\* trades that between them make most detectors fire within a few events
SessionPool ==
    { Trade(<<9, 0, 0>>,   "BTCUSD", "BUY",  -100, "OPEN"),
      Trade(<<9, 1, 0>>,   "BTCUSD", "BUY",    50, "OPEN"),
      Trade(<<9, 5, 0>>,   "BTCUSD", "BUY",   -50, "CLOSED"),
      Trade(<<9, 8, 0>>,   "BTCUSD", "SELL", -250, "CLOSED"),
      Trade(<<10, 30, 0>>, "EURUSD", "BUY",    80, "CLOSED") }

\* a loss and a win, for sessions around the overtrading threshold
LongPool ==
    { Trade(<<9, 0, 0>>,  "BTCUSD", "BUY", -100, "OPEN"),
      Trade(<<9, 30, 0>>, "BTCUSD", "BUY",   50, "OPEN") }

LongSessions == UNION {[1..k -> LongPool] : k \in 10..MaxLongTrades}

\* losses 0, 5, 8, 10 and 11 minutes after 09:00, and three non-losses
RevengePool ==
    { Trade(<<9, 0, 0>>,  "BTCUSD", "BUY", -100, "CLOSED"),
      Trade(<<9, 5, 0>>,  "BTCUSD", "BUY",  -50, "CLOSED"),
      Trade(<<9, 8, 0>>,  "BTCUSD", "BUY",  -75, "CLOSED"),
      Trade(<<9, 10, 0>>, "BTCUSD", "BUY",  -75, "CLOSED"),
      Trade(<<9, 11, 0>>, "BTCUSD", "BUY",  -75, "CLOSED"),
      Trade(<<9, 6, 0>>,  "BTCUSD", "BUY",   50, "CLOSED"),
      Trade(<<9, 7, 0>>,  "BTCUSD", "BUY",    0, "CLOSED"),
      Trade(<<10, 0, 0>>, "EURUSD", "BUY",   50, "CLOSED") }

\* two trades share 09:05; one timestamp does not parse
OrderPool ==
    { Trade(<<9, 0, 0>>,  "BTCUSD", "BUY",   50, "CLOSED"),
      Trade(<<9, 5, 0>>,  "BTCUSD", "BUY",   50, "CLOSED"),
      Trade(<<9, 5, 0>>,  "BTCUSD", "BUY", -250, "CLOSED"),
      Trade(<<9, 8, 0>>,  "BTCUSD", "BUY", -100, "CLOSED"),
      Trade(<<9, 61, 0>>, "BTCUSD", "BUY",  -50, "CLOSED"),
      Trade(<<10, 0, 0>>, "EURUSD", "BUY",  -50, "OPEN") }

AllSwitches ==
    [check_revenge_trading : BOOLEAN, check_overtrading : BOOLEAN,
     check_emotional_patterns : BOOLEAN]

\* BehaviorMonitorAgent(): every switch defaults to True
DefaultSwitches ==
    {[check_revenge_trading |-> TRUE, check_overtrading |-> TRUE,
      check_emotional_patterns |-> TRUE]}

\* insights as the narrator may be handed them: one per severity, one with a
\* severity outside the weight table, one without the key
InsightPool ==
    { [type |-> "Revenge Trading", severity |-> "High",
       details |-> [consecutive_losses |-> 3, minutes |-> 8]],
      [type |-> "FOMO Trading", severity |-> "Medium",
       details |-> [text |-> "Detected rapid re-entry on same asset after a win."]],
      [type |-> "Calculated Risk", severity |-> "Positive",
       details |-> [win_rate |-> 500]],
      [type |-> "Custom", severity |-> "N/A", details |-> [text |-> "custom"]],
      Disciplined }

AssessPool ==
    { [type |-> "Revenge Trading", severity |-> "High",
       details |-> [consecutive_losses |-> 3, minutes |-> 8]],
      [type |-> "Ego Trading", severity |-> "High",
       details |-> [wins_streak |-> 2, loss |-> 250]],
      [type |-> "Averaging Down", severity |-> "High",
       details |-> [symbol |-> "BTCUSD"]],
      [type |-> "Calculated Risk", severity |-> "Positive",
       details |-> [win_rate |-> 500]],
      [type |-> "FOMO Trading", severity |-> "Medium",
       details |-> [text |-> "Detected rapid re-entry on same asset after a win."]] }

ScorePool == {0, 39, 40, 59, 60, 65, 100}

StatePool ==
    {[consecutive_losses |-> l, consecutive_wins |-> w, trades_in_last_hour |-> r] :
        l \in 0..MaxLosses, w \in 0..MaxWins, r \in 0..MaxRecent}
    \cup {[consecutive_losses |-> l, consecutive_wins |-> w] :
        l \in 0..MaxLosses, w \in 0..MaxWins}

TendencyKeys ==
    {"revenge_trading_tendency", "fomo_tendency", "ego_trading_tendency",
     "impulsive_tendency"}

\* priors in [0, 1] around the rules' thresholds 0.5 and 0.4
TendencyPool ==
    {d \in [TendencyKeys -> {-1, 25, 40, 41, 51, 75}] :
        /\ d["revenge_trading_tendency"] \in {-1, 25, 51, 75}
        /\ \A k \in TendencyKeys \ {"revenge_trading_tendency"} : d[k] \in {-1, 40, 41, 75}}

\* the dict with the keys of d whose value is not the absent mark -1
Present(d) == [k \in {j \in DOMAIN d : d[j] # -1} |-> d[k]]

PriorsPool == {NoneValue} \cup {Present(d) : d \in TendencyPool}

\* lists a caller analyses one after another: the empty list, three losses
\* within 8 minutes listed newest first, two wins and a large loss, a loss
\* and a win with the same timestamp, and 11 trades
RepeatSessions ==
    { <<>>,
      << Trade(<<9, 8, 0>>, "BTCUSD", "BUY", -75, "CLOSED"),
         Trade(<<9, 5, 0>>, "BTCUSD", "BUY", -50, "CLOSED"),
         Trade(<<9, 0, 0>>, "BTCUSD", "BUY", -100, "CLOSED") >>,
      << Trade(<<9, 0, 0>>,  "BTCUSD", "BUY",   50, "CLOSED"),
         Trade(<<9, 30, 0>>, "BTCUSD", "BUY",   80, "CLOSED"),
         Trade(<<10, 0, 0>>, "BTCUSD", "SELL", -250, "CLOSED") >>,
      << Trade(<<9, 5, 0>>, "BTCUSD", "BUY", -50, "CLOSED"),
         Trade(<<9, 5, 0>>, "EURUSD", "BUY",  50, "CLOSED") >>,
      [k \in 1..11 |-> Trade(<<9, 30, 0>>, "BTCUSD", "BUY", 50, "OPEN")] }

-----------------------------------------------------------------------------
(* State machine *)

Self ==
    [check_revenge_trading |-> check_revenge_trading,
     check_overtrading |-> check_overtrading,
     check_emotional_patterns |-> check_emotional_patterns]

\* an agent constructed with one of `switches`, about to analyse one of `sessions`
InitSession(switches, sessions) ==
    /\ \E sw \in switches :
          /\ check_revenge_trading = sw.check_revenge_trading
          /\ check_overtrading = sw.check_overtrading
          /\ check_emotional_patterns = sw.check_emotional_patterns
    /\ trades \in sessions
    /\ called = <<>>
    /\ insights = <<>>
    /\ risk_score = 0
    /\ readiness = NoneValue
    /\ current_session_state = NoneValue
    /\ historical_tendencies = NoneValue
    /\ prediction = NoneValue
    /\ earlier = <<>>
    /\ pc = "idle"

Init == InitSession(AllSwitches, Lists(SessionPool, MaxTrades) \cup LongSessions)

InitRevenge == InitSession(DefaultSwitches, Lists(RevengePool, MaxRevengeTrades))

InitOrder == InitSession(DefaultSwitches, Lists(OrderPool, MaxOrderTrades))

\* the narrator handed an insight list directly
InitNarrator(lists, scores, at) ==
    /\ check_revenge_trading = TRUE
    /\ check_overtrading = TRUE
    /\ check_emotional_patterns = TRUE
    /\ trades = <<>>
    /\ called = <<>>
    /\ insights \in lists
    /\ risk_score \in scores
    /\ readiness = NoneValue
    /\ current_session_state = NoneValue
    /\ historical_tendencies = NoneValue
    /\ prediction = NoneValue
    /\ earlier = <<>>
    /\ pc = at

InitScore == InitNarrator(Lists(InsightPool, MaxInsights), {0}, "analyzed")

InitAssess == InitNarrator(Lists(AssessPool, MaxAssessInsights), ScorePool, "scored")

\* an agent with any switches about to make the first of several calls
InitRepeat == InitSession(AllSwitches, RepeatSessions)

InitPredict ==
    /\ check_revenge_trading = TRUE
    /\ check_overtrading = TRUE
    /\ check_emotional_patterns = TRUE
    /\ trades = <<>>
    /\ called = <<>>
    /\ insights = <<>>
    /\ risk_score = 0
    /\ readiness = NoneValue
    /\ current_session_state \in StatePool
    /\ historical_tendencies \in PriorsPool
    /\ prediction = NoneValue
    /\ earlier = <<>>
    /\ pc = "idle"

\* insights = monitor.analyze_session(trades): the method assigns no
\* attribute of self, and the caller's list is left as argument_after gives it
AnalyzeSession ==
    /\ pc = "idle"
    /\ insights' = analyze_session(Self, trades)
    /\ called' = detectors_called(Self, trades)
    /\ trades' = argument_after(trades)
    /\ pc' = "analyzed"
    /\ UNCHANGED <<check_revenge_trading, check_overtrading, check_emotional_patterns,
                   risk_score, readiness, current_session_state,
                   historical_tendencies, prediction, earlier>>

\* the caller keeps the result and prepares a call on another list, or on the
\* same one: `first = monitor.analyze_session(a); ... monitor.analyze_session(b)`
CallAgain ==
    /\ pc = "analyzed"
    /\ Len(earlier) < MaxCalls - 1
    /\ earlier' = Append(earlier, [trades |-> trades, insights |-> insights])
    /\ trades' \in RepeatSessions
    /\ pc' = "idle"
    /\ UNCHANGED <<check_revenge_trading, check_overtrading, check_emotional_patterns,
                   called, insights, risk_score, readiness, current_session_state,
                   historical_tendencies, prediction>>

\* risk_score = self.calculate_risk_score(behavioral_insights)
CalculateRiskScore ==
    /\ pc = "analyzed"
    /\ risk_score' = calculate_risk_score(insights)
    /\ pc' = "scored"
    /\ UNCHANGED <<check_revenge_trading, check_overtrading, check_emotional_patterns,
                   trades, called, insights, readiness, current_session_state,
                   historical_tendencies, prediction, earlier>>

\* readiness = self.assess_market_readiness(risk_score, behavioral_insights)
AssessMarketReadiness ==
    /\ pc = "scored"
    /\ readiness' = assess_market_readiness(risk_score, insights)
    /\ pc' = "assessed"
    /\ UNCHANGED <<check_revenge_trading, check_overtrading, check_emotional_patterns,
                   trades, called, insights, risk_score, current_session_state,
                   historical_tendencies, prediction, earlier>>

\* prediction = monitor.predict_next_risk(current_session_state, historical_tendencies)
PredictNextRisk ==
    /\ pc = "idle"
    /\ \E tie_up \in BOOLEAN :
          prediction' = predict_next_risk(current_session_state,
                                          historical_tendencies, tie_up)
    /\ pc' = "predicted"
    /\ UNCHANGED <<check_revenge_trading, check_overtrading, check_emotional_patterns,
                   trades, called, insights, risk_score, readiness,
                   current_session_state, historical_tendencies, earlier>>

Next == AnalyzeSession \/ CalculateRiskScore \/ AssessMarketReadiness

NextAnalyze == AnalyzeSession

NextScore == CalculateRiskScore

NextAssess == AssessMarketReadiness

NextPredict == PredictNextRisk

NextRepeat == AnalyzeSession \/ CallAgain

Spec == Init /\ [][Next]_vars

SpecRevenge == InitRevenge /\ [][NextAnalyze]_vars

SpecOrder == InitOrder /\ [][NextAnalyze]_vars

SpecScore == InitScore /\ [][NextScore]_vars

SpecAssess == InitAssess /\ [][NextAssess]_vars

SpecPredict == InitPredict /\ [][NextPredict]_vars

SpecRepeat == InitRepeat /\ [][NextRepeat]_vars

-----------------------------------------------------------------------------
(* Properties *)

Analyzed == pc \in {"analyzed", "scored", "assessed"}

HasType(list, t) == \E i \in 1..Len(list) : list[i].type = t

AllParse(ts) == \A i \in 1..Len(ts) : strptime(ts[i].timestamp) # ValueError

Abs(x) == IF x >= 0 THEN x ELSE -x

Loss(ts, pnl) == Trade(ts, "BTCUSD", "BUY", pnl, "CLOSED")

\* three consecutive trades of st, all losses, first to third at most 10 minutes
LossTripleWithin10(st) ==
    \E i \in 1..(Len(st) - 2) :
        /\ st[i].pnl < 0 /\ st[i + 1].pnl < 0 /\ st[i + 2].pnl < 0
        /\ Abs(strptime(st[i + 2].timestamp) - strptime(st[i].timestamp)) <= 600

SampleTrades ==
    << Loss(<<9, 0, 0>>, -100), Loss(<<9, 5, 0>>, -50), Loss(<<9, 8, 0>>, -75),
       Trade(<<10, 0, 0>>, "EURUSD", "BUY", 50, "CLOSED") >>

TenMinuteLosses ==
    << Loss(<<9, 0, 0>>, -100), Loss(<<9, 5, 0>>, -50), Loss(<<9, 10, 0>>, -75) >>

ElevenMinuteLosses ==
    << Loss(<<9, 0, 0>>, -100), Loss(<<9, 5, 0>>, -50), Loss(<<9, 11, 0>>, -75) >>

(* C1: with revenge detection enabled and every timestamp parsing, the result
   of analyze_session holds a "Revenge Trading" insight, of severity High, if
   and only if the sorted session has three consecutive losing trades whose
   first and third timestamps are at most 10 minutes apart; losses spanning
   exactly 10 minutes fire, losses spanning 11 minutes do not, and the sample
   session (losses at 09:00, 09:05, 09:08, then a win at 10:00) yields the
   insight citing 3 losses within 8 minutes and no "Disciplined" fallback. *)
C1_RevengeIffThreeLossesWithinTenMinutes ==
    (pc = "analyzed" /\ check_revenge_trading /\ trades # <<>> /\ AllParse(trades)) =>
        LET st == sorted(trades)
        IN  /\ HasType(insights, "Revenge Trading") <=> LossTripleWithin10(st)
            /\ \A i \in 1..Len(insights) :
                  insights[i].type = "Revenge Trading" =>
                      i = 1 /\ insights[i].severity = "High"
            /\ st = TenMinuteLosses => HasType(insights, "Revenge Trading")
            /\ st = ElevenMinuteLosses => ~HasType(insights, "Revenge Trading")
            /\ st = SampleTrades =>
                  /\ insights[1] = [type |-> "Revenge Trading", severity |-> "High",
                                    details |-> [consecutive_losses |-> 3, minutes |-> 8]]
                  /\ ~HasType(insights, "Disciplined")

\* an unsorted session of three losses spanning exactly 10 minutes was analysed and fired
C1_Witness ==
    /\ pc = "analyzed"
    /\ trades # sorted(trades)
    /\ sorted(trades) = TenMinuteLosses
    /\ insights[1].type = "Revenge Trading"
    /\ insights[1].details.minutes = 10

Severities(list) == [i \in 1..Len(list) |-> list[i].severity]

\* the weight the risk aggregator's table gives a severity value
TableWeight(severity) ==
    IF severity = "High" THEN 25
    ELSE IF severity = "Medium" THEN 15
    ELSE IF severity = "Positive" THEN -20
    ELSE 10

(* C2: calculate_risk_score returns an integer in [0,100] for every insight
   list; for a list whose insights all carry a severity value it is the sum of
   the weights High +25, Medium +15, Positive -20, any other value +10,
   clamped once, after the last insight, to [0,100]; the empty list scores 0
   and [High, Medium, Positive] scores 20. *)
C2_ScoreIsClampedWeightSum ==
    pc = "scored" =>
        /\ risk_score \in 0..100
        /\ (\A i \in 1..Len(insights) : "severity" \in DOMAIN insights[i]) =>
              LET total == SumSeq([i \in 1..Len(insights) |->
                                      TableWeight(insights[i].severity)])
              IN  risk_score = (IF total < 0 THEN 0 ELSE IF total > 100 THEN 100 ELSE total)
        /\ insights = <<>> => risk_score = 0
        /\ ((\A i \in 1..Len(insights) : "severity" \in DOMAIN insights[i])
              /\ Severities(insights) = <<"High", "Medium", "Positive">>) => risk_score = 20

\* a list whose running sum dips below 0 before it ends above: Positive, then High
C2_Witness ==
    /\ pc = "scored"
    /\ Len(insights) = 2
    /\ insights[1].type = "Calculated Risk"
    /\ insights[2].type = "Revenge Trading"
    /\ risk_score = 5

TypesOf(list) == {list[i].type : i \in 1..Len(list)}

CriticalSeen(list) ==
    TypesOf(list) \cap {"Revenge Trading", "Ego Trading", "Averaging Down"} # {}

(* C3: assess_market_readiness follows the four-row table, first match wins:
   (1) risk_score >= 60 or a Revenge Trading, Ego Trading or Averaging Down
   insight gives STOP TRADING, also when Calculated Risk is present or the
   score is below 40; (2) else risk_score >= 40 gives TRADE WITH CAUTION;
   (3) else a Calculated Risk insight gives CONTINUE TRADING; (4) otherwise
   PROCEED CAREFULLY; ready is false exactly for STOP TRADING. *)
C3_ReadinessDecisionTable ==
    pc = "assessed" =>
        LET row1 == risk_score >= 60 \/ CriticalSeen(insights)
            row2 == risk_score >= 40
            row3 == "Calculated Risk" \in TypesOf(insights)
        IN  /\ row1 => readiness.recommendation = "STOP TRADING"
            /\ (~row1 /\ row2) => readiness.recommendation = "TRADE WITH CAUTION"
            /\ (~row1 /\ ~row2 /\ row3) => readiness.recommendation = "CONTINUE TRADING"
            /\ (~row1 /\ ~row2 /\ ~row3) => readiness.recommendation = "PROCEED CAREFULLY"
            /\ readiness.ready = (readiness.recommendation # "STOP TRADING")
            /\ (risk_score = 65 /\ ~CriticalSeen(insights)) =>
                  readiness.recommendation = "STOP TRADING" /\ ~readiness.ready

\* a critical pattern beside Calculated Risk at a score below 40 stopped trading
C3_Witness ==
    /\ pc = "assessed"
    /\ risk_score < 40
    /\ CriticalSeen(insights)
    /\ "Calculated Risk" \in TypesOf(insights)
    /\ readiness.recommendation = "STOP TRADING"
    /\ readiness.ready = FALSE

\* some detector of an enabled group returns an insight for the sorted session
EnabledDetectorFired(self, st) ==
    \/ self.check_revenge_trading /\ detect_revenge_trading(st) # NoneValue
    \/ self.check_overtrading /\ detect_overtrading(st) # NoneValue
    \/ /\ self.check_emotional_patterns
       /\ \/ detect_fomo_trading(st) # NoneValue
          \/ detect_ego_trading(st) # NoneValue
          \/ detect_impulsive_decisions(st) # NoneValue
          \/ detect_calculated_risk(st) # NoneValue
          \/ detect_loss_aversion(st) # NoneValue
          \/ detect_quick_profit_taking(st) # NoneValue
          \/ detect_averaging_down(st) # NoneValue
          \/ detect_hesitation(st) # NoneValue

(* C4: for a non-empty session the list analyze_session returns holds the
   "Disciplined" insight if and only if no enabled detector fired, and then
   "Disciplined" is the only element of the list. *)
C4_DisciplinedIffNothingFired ==
    (Analyzed /\ trades # <<>>) =>
        /\ HasType(insights, "Disciplined") <=> ~EnabledDetectorFired(Self, sorted(trades))
        /\ HasType(insights, "Disciplined") => insights = <<Disciplined>>

\* only detectors of a disabled group would have fired: the fallback is returned
C4_Witness ==
    /\ pc = "analyzed"
    /\ trades # <<>>
    /\ ~check_emotional_patterns
    /\ emotional_patterns(sorted(trades)) # <<>>
    /\ insights = <<Disciplined>>

(* C5: for a session with zero trades analyze_session returns exactly one
   insight, of type "No Activity", whatever the three switches are, and calls
   no detector. *)
C5_EmptySessionNoActivity ==
    (Analyzed /\ trades = <<>>) =>
        /\ Len(insights) = 1
        /\ insights[1].type = "No Activity"
        /\ called = <<>>

\* an agent with every switch on analysed the empty session
C5_Witness ==
    /\ pc = "analyzed"
    /\ trades = <<>>
    /\ check_revenge_trading /\ check_overtrading /\ check_emotional_patterns
    /\ insights = <<NoActivity>>

FixedOrder ==
    << "Revenge Trading", "Overtrading", "FOMO Trading", "Ego Trading",
       "Impulsive Decisions", "Calculated Risk", "Loss Aversion",
       "Quick Profit Taking", "Averaging Down", "Hesitation / Analysis Paralysis" >>

\* the position of pattern type t in FixedOrder, 0 when it is not one of the ten
Rank(t) ==
    IF \E k \in 1..Len(FixedOrder) : FixedOrder[k] = t
    THEN CHOOSE k \in 1..Len(FixedOrder) : FixedOrder[k] = t
    ELSE 0

(* C6: for a non-empty session the detector insights analyze_session returns
   (every result but the lone "Disciplined" fallback) are a subsequence of
   the fixed order Revenge Trading, Overtrading, FOMO Trading, Ego Trading,
   Impulsive Decisions, Calculated Risk, Loss Aversion, Quick Profit Taking,
   Averaging Down, Hesitation: each is one of the ten types, they appear in
   that relative order, and no type appears twice. *)
C6_InsightsFollowFixedOrder ==
    (Analyzed /\ trades # <<>> /\ insights # <<Disciplined>>) =>
        /\ \A i \in 1..Len(insights) : Rank(insights[i].type) > 0
        /\ \A i, j \in 1..Len(insights) :
              i < j => Rank(insights[i].type) < Rank(insights[j].type)

\* detectors of all three groups fired in one session
C6_Witness ==
    /\ pc = "analyzed"
    /\ Len(insights) >= 5
    /\ insights[1].type = "Revenge Trading"
    /\ insights[2].type = "Overtrading"
    /\ HasType(insights, "Averaging Down")

\* every reordering of list s
Reorderings(s) ==
    {[i \in 1..Len(s) |-> s[p[i]]] : p \in Permutations(1..Len(s))}

DistinctTimestamps(ts) ==
    \A i, j \in 1..Len(ts) : i # j => ts[i].timestamp # ts[j].timestamp

\* list t holds the events of list s, each as often
SameEvents(s, t) ==
    /\ Len(s) = Len(t)
    /\ \A x \in {s[i] : i \in 1..Len(s)} :
          Cardinality({i \in 1..Len(s) : s[i] = x})
            = Cardinality({i \in 1..Len(t) : t[i] = x})

(* C7 as stated: two inputs holding the same events in different orders
   always produce the same insight list. *)
C7_AnyOrderSameInsights ==
    pc = "analyzed" =>
        \A other \in Reorderings(trades) : analyze_session(Self, other) = insights

(* C7 as amended: analyze_session runs the detectors on the caller's events
   sorted by ascending timestamp, events with equal timestamps keeping the
   caller's order, so two inputs holding the same events in different orders
   produce the same insight list whenever no two events share a timestamp. *)
C7_DistinctTimestampsSameInsights ==
    pc = "analyzed" =>
        LET st == sorted(trades)
        IN  /\ SameEvents(trades, st)
            /\ \A i \in 1..(Len(st) - 1) : ~StrLess(st[i + 1].timestamp, st[i].timestamp)
            /\ trades # <<>> =>
                  insights = analyze_session(Self, st)
            /\ DistinctTimestamps(trades) =>
                  \A other \in Reorderings(trades) : analyze_session(Self, other) = insights

\* an out-of-order session with distinct timestamps whose detectors fired
C7_Witness ==
    /\ pc = "analyzed"
    /\ Len(trades) = 3
    /\ DistinctTimestamps(trades)
    /\ StrLess(trades[3].timestamp, trades[1].timestamp)
    /\ insights # <<Disciplined>>
    /\ emotional_patterns(trades) # emotional_patterns(sorted(trades))

Predicted == pc = "predicted"

\* the inputs of the rules as predict_next_risk reads them
Losses == Get(current_session_state, "consecutive_losses", 0)
Wins == Get(current_session_state, "consecutive_wins", 0)
Recent == Get(current_session_state, "trades_in_last_hour", 0)
Priors == tendencies(historical_tendencies)

If(cond, pattern) == IF cond THEN <<pattern>> ELSE <<>>

(* C8: predict_next_risk returns exactly the patterns whose rule holds, in
   the order Revenge Trading, FOMO Trading, Ego Trading, Impulsive Trading,
   each rule decided by its own condition alone: Revenge iff
   consecutive_losses >= 2 and (revenge_tendency > 0.5 or
   consecutive_losses >= 3); FOMO iff consecutive_wins >= 2 and
   fomo_tendency > 0.4; Ego iff consecutive_wins >= 3 and ego_tendency > 0.4;
   Impulsive iff trades_in_last_hour >= 5 and impulsive_tendency > 0.4. *)
C8_RulesFireIndependently ==
    Predicted =>
        prediction.high_risk_predictions =
               If(Losses >= 2 /\ (Priors.revenge > 50 \/ Losses >= 3), "Revenge Trading")
            \o If(Wins >= 2 /\ Priors.fomo > 40, "FOMO Trading")
            \o If(Wins >= 3 /\ Priors.ego > 40, "Ego Trading")
            \o If(Recent >= 5 /\ Priors.impulsive > 40, "Impulsive Trading")

\* the Ego rule fired although the FOMO rule, read just before it, did not
C8_Witness ==
    /\ pc = "predicted"
    /\ Wins >= 3
    /\ Priors.fomo <= 40
    /\ prediction.high_risk_predictions = <<"Ego Trading", "Impulsive Trading">>

\* the confidences of the rules that fired, and their sum (hundredths)
FiredConfidences ==
    LET fired == risk_checks(current_session_state, historical_tendencies)
    IN  [i \in 1..Len(fired) |-> fired[i].confidence]

FiredTotal == SumSeq(FiredConfidences)

FiredCount == Len(prediction.high_risk_predictions)

\* the mean confidence exceeds bound hundredths (0 when no rule fired)
MeanExceeds(bound) == FiredCount > 0 /\ FiredTotal > bound * FiredCount

(* C9: the risk level predict_next_risk returns is "high" if at least two
   predictions fired or the mean confidence exceeds 0.7, otherwise "medium"
   if at least one fired or the mean exceeds 0.5, otherwise "low"; and the
   recommended action is the STOP literal for high, the CAUTION literal for
   medium and the continue literal for low. *)
C9_LevelAndActionTable ==
    Predicted =>
        /\ prediction.risk_level =
              (IF FiredCount >= 2 \/ MeanExceeds(70) THEN "high"
               ELSE IF FiredCount >= 1 \/ MeanExceeds(50) THEN "medium"
               ELSE "low")
        /\ prediction.risk_level = "high" =>
              prediction.recommended_action =
                 "STOP: Do not take the next trade. Take a 15-minute break."
        /\ prediction.risk_level = "medium" =>
              prediction.recommended_action =
                 "CAUTION: Reduce position size by 50% and stick strictly to your plan."
        /\ prediction.risk_level = "low" =>
              prediction.recommended_action =
                 "Continue trading with normal risk management"

\* one prediction whose confidence is exactly 0.7: not above it, so medium
C9_Witness ==
    /\ pc = "predicted"
    /\ FiredCount = 1
    /\ FiredTotal = 70
    /\ prediction.risk_level = "medium"

\* each fired confidence is the one the rule defines
ConfidencesAsDefined ==
    \A i \in 1..FiredCount :
        FiredConfidences[i] =
            CASE prediction.high_risk_predictions[i] = "Revenge Trading" ->
                   Min(100, Priors.revenge + 15 * Losses)
              [] prediction.high_risk_predictions[i] = "FOMO Trading" -> Priors.fomo
              [] prediction.high_risk_predictions[i] = "Ego Trading" -> Priors.ego
              [] OTHER -> Priors.impulsive

\* the scenario predict({consecutive_losses:3, consecutive_wins:0},
\* {revenge_trading_tendency:0.75})
ScenarioHolds ==
    (/\ current_session_state = [consecutive_losses |-> 3, consecutive_wins |-> 0]
     /\ historical_tendencies = [revenge_trading_tendency |-> 75]) =>
        /\ prediction.high_risk_predictions = <<"Revenge Trading">>
        /\ prediction.confidence = 100
        /\ prediction.risk_level = "high"
        /\ prediction.recommended_action =
              "STOP: Do not take the next trade. Take a 15-minute break."

(* C10 as stated: the confidence predict_next_risk reports is the
   arithmetic mean of the fired confidences (0 when none fired), it lies in
   [0, 1], and the scenario gives Revenge Trading at 1.0, high, STOP. *)
C10_ConfidenceIsExactMean ==
    Predicted =>
        /\ ConfidencesAsDefined
        /\ IF FiredCount = 0 THEN prediction.confidence = 0
           ELSE prediction.confidence * FiredCount = FiredTotal
        /\ prediction.confidence \in 0..100
        /\ ScenarioHolds

(* C10 as amended: the confidence predict_next_risk reports is the
   arithmetic mean of the fired confidences rounded to two decimal places
   (0 when none fired), the Revenge Trading confidence being
   min(1.0, revenge_tendency + 0.15 * consecutive_losses) and the other
   three their tendency; it lies in [0, 1], and the scenario gives Revenge
   Trading at 1.0, high, STOP. *)
C10_ConfidenceIsRoundedMean ==
    Predicted =>
        /\ ConfidencesAsDefined
        /\ IF FiredCount = 0 THEN prediction.confidence = 0
           ELSE 2 * Abs(prediction.confidence * FiredCount - FiredTotal) <= FiredCount
        /\ prediction.confidence \in 0..100
        /\ ScenarioHolds

\* the capped Revenge confidence averaged with two others: 1.0, 0.41 and 0.41
\* have the mean 0.6066..., reported as 0.61
C10_Witness ==
    /\ pc = "predicted"
    /\ Priors.revenge + 15 * Losses > 100
    /\ FiredConfidences = <<100, 41, 41>>
    /\ prediction.confidence = 61

\* the prior for key is absent: no priors at all, or a mapping without the key
PriorAbsent(key) ==
    \/ historical_tendencies = NoneValue
    \/ key \notin DOMAIN historical_tendencies

(* C11: whenever a tendency prior is absent (no priors supplied, or the
   supplied mapping has no entry for the pattern) predict_next_risk uses
   0.3 for that tendency; in particular a Revenge Trading prediction made
   without a revenge prior has the confidence min(1.0, 0.3 + 0.15 *
   consecutive_losses). *)
C11_AbsentPriorDefaultsToPoint3 ==
    Predicted =>
        /\ PriorAbsent("revenge_trading_tendency") => Priors.revenge = 30
        /\ PriorAbsent("fomo_tendency") => Priors.fomo = 30
        /\ PriorAbsent("ego_trading_tendency") => Priors.ego = 30
        /\ PriorAbsent("impulsive_tendency") => Priors.impulsive = 30
        /\ (/\ PriorAbsent("revenge_trading_tendency")
            /\ prediction.high_risk_predictions = <<"Revenge Trading">>) =>
               prediction.confidence = Min(100, 30 + 15 * Losses)

\* the insight of type t in list, NoneValue when there is none
InsightOf(list, t) ==
    IF HasType(list, t)
    THEN list[CHOOSE i \in 1..Len(list) : list[i].type = t]
    ELSE NoneValue

\* list holds an insight of type t, and it has the given severity
Fires(list, t, severity) ==
    HasType(list, t) /\ InsightOf(list, t).severity = severity

(* C20: with the overtrading check enabled, analyze_session reports
   Overtrading, severity Medium, if and only if the session holds more than
   10 trades: exactly 10 trades do not fire and 11 trades do, whatever the
   trades are. *)
C20_OvertradingIffMoreThanTen ==
    (Analyzed /\ check_overtrading) =>
        /\ HasType(insights, "Overtrading") <=> Len(trades) > 10
        /\ HasType(insights, "Overtrading") => Fires(insights, "Overtrading", "Medium")
        /\ Len(trades) = 10 => ~HasType(insights, "Overtrading")
        /\ Len(trades) = 11 => HasType(insights, "Overtrading")

\* a session of exactly 11 trades was reported as Overtrading
C20_Witness ==
    /\ pc = "analyzed"
    /\ check_overtrading
    /\ Len(trades) = 11
    /\ Fires(insights, "Overtrading", "Medium")

-----------------------------------------------------------------------------
(* Sessions for the single detectors *)

\* the timestamp string of second s of the day
Stamp(s) == <<s \div 3600, (s % 3600) \div 60, s % 60>>

\* 09:00:00, the time of a session's first event
SessionStart == 9 * 3600

\* the session whose k-th event has the attributes attrs[k] and follows the
\* event before it by gaps[k - 1] seconds
Chrono(attrs, gaps) ==
    [k \in 1..Len(attrs) |->
        Trade(Stamp(SessionStart + SumSeq(SubSeq(gaps, 1, k - 1))),
              attrs[k].symbol, attrs[k].action, attrs[k].pnl, attrs[k].status)]

\* every session of at most n events with attributes of attrset and gaps of gapset
ChronoSessions(attrset, gapset, n) ==
    UNION {{Chrono(a, g) : a \in [1..k -> attrset], g \in [1..(k - 1) -> gapset]} :
              k \in 0..n}

\* the caller lists the events newest first
Reversed(s) == [k \in 1..Len(s) |-> s[Len(s) + 1 - k]]

MaxEgoTrades == 5       \* longest session of SpecEgo

\* attributes of a closed BTCUSD purchase with the given pnl
Closed(p) == [symbol |-> "BTCUSD", action |-> "BUY", pnl |-> p, status |-> "CLOSED"]

\* chronological sessions and the same sessions listed newest first
BothOrders(chrono) == chrono \cup {Reversed(s) : s \in chrono}

\* wins, break-even trades and losses at and below -150
EgoSessions(n) ==
    BothOrders(ChronoSessions({Closed(p) : p \in {50, 0, -150, -151}},
                              {7 * 60}, n))

InitEgo == InitSession(DefaultSwitches, EgoSessions(MaxEgoTrades))

SpecEgo == InitEgo /\ [][NextAnalyze]_vars

\* some trade of st with pnl < -150 comes right after two trades with pnl > 0
LargeLossAfterTwoWins(st) ==
    \E j \in 3..Len(st) :
        st[j].pnl < -150 /\ st[j - 1].pnl > 0 /\ st[j - 2].pnl > 0

(* C13: analyze_session reports Ego Trading, severity High, if and only if
   some trade of the sorted session with pnl < -150 is immediately preceded
   by at least 2 consecutive trades with pnl > 0; a trade with pnl <= 0
   ends the run of wins, and a loss of exactly -150 does not fire. *)
C13_EgoIffLargeLossAfterTwoWins ==
    Analyzed =>
        /\ HasType(insights, "Ego Trading") <=> LargeLossAfterTwoWins(sorted(trades))
        /\ HasType(insights, "Ego Trading") => Fires(insights, "Ego Trading", "High")

\* Ego Trading was reported for a session in which a break-even trade had
\* ended an earlier run of wins, the caller listing the events newest first
C13_Witness ==
    /\ pc = "analyzed"
    /\ Len(trades) = 5
    /\ trades[5].pnl > 0 /\ trades[4].pnl = 0
    /\ trades[3].pnl > 0 /\ trades[2].pnl > 0 /\ trades[1].pnl = -151
    /\ Fires(insights, "Ego Trading", "High")

MaxCalculatedTrades == 5    \* longest session of SpecCalculated

\* wins, break-even trades and losses at and below -200
CalculatedSessions(n) ==
    BothOrders(ChronoSessions({Closed(p) : p \in {50, 0, -200, -201}},
                              {7 * 60}, n))

InitCalculated == InitSession(DefaultSwitches, CalculatedSessions(MaxCalculatedTrades))

SpecCalculated == InitCalculated /\ [][NextAnalyze]_vars

\* the number of trades of st with pnl > 0
WinCount(st) == Cardinality({i \in 1..Len(st) : st[i].pnl > 0})

(* C16: analyze_session reports Calculated Risk, severity Positive, if and
   only if the session has at least 3 trades, the trades with pnl > 0 are at
   least 40% of all trades, and no trade has pnl below -200 (a session
   without a loss qualifies, and so does a loss of exactly -200). *)
C16_CalculatedRiskIffControlled ==
    Analyzed =>
        /\ HasType(insights, "Calculated Risk") <=>
              /\ Len(trades) >= 3
              /\ 100 * WinCount(trades) >= 40 * Len(trades)
              /\ \A i \in 1..Len(trades) : trades[i].pnl >= -200
        /\ HasType(insights, "Calculated Risk") =>
              Fires(insights, "Calculated Risk", "Positive")

\* 2 wins in 5 trades, exactly 40%, and a worst loss of exactly -200
C16_Witness ==
    /\ pc = "analyzed"
    /\ Len(trades) = 5
    /\ WinCount(trades) = 2
    /\ \E i \in 1..5 : trades[i].pnl = -200
    /\ Fires(insights, "Calculated Risk", "Positive")

MaxAveragingTrades == 4     \* longest session of SpecAveraging

\* losses, a win and a break-even trade on two symbols, bought and sold
AveragingAttrs ==
    { [symbol |-> "BTCUSD", action |-> "BUY",  pnl |-> -50, status |-> "CLOSED"],
      [symbol |-> "BTCUSD", action |-> "BUY",  pnl |->  50, status |-> "CLOSED"],
      [symbol |-> "BTCUSD", action |-> "BUY",  pnl |->   0, status |-> "CLOSED"],
      [symbol |-> "BTCUSD", action |-> "SELL", pnl |-> -50, status |-> "CLOSED"],
      [symbol |-> "EURUSD", action |-> "BUY",  pnl |-> -50, status |-> "CLOSED"],
      [symbol |-> "EURUSD", action |-> "SELL", pnl |-> -50, status |-> "CLOSED"] }

AveragingSessions(n) == ChronoSessions(AveragingAttrs, {7 * 60}, n)

InitAveraging == InitSession(DefaultSwitches, AveragingSessions(MaxAveragingTrades))

SpecAveraging == InitAveraging /\ [][NextAnalyze]_vars

\* trades i, i+1, i+2 of st: a loss, a BUY on the loss's symbol, a loss
LossBuyLoss(st, i) ==
    /\ st[i].pnl < 0
    /\ st[i + 1].symbol = st[i].symbol
    /\ st[i + 1].action = "BUY"
    /\ st[i + 2].pnl < 0

(* C14: analyze_session reports Averaging Down, severity High, if and only
   if the sorted session contains three consecutive trades i, i+1, i+2 where
   trade i has pnl < 0, trade i+1 has the symbol of trade i and action BUY,
   and trade i+2 has pnl < 0, whatever the symbol and action of trade i+2. *)
C14_AveragingDownIffLossBuyLoss ==
    Analyzed =>
        LET st == sorted(trades)
        IN  /\ HasType(insights, "Averaging Down") <=>
                  \E i \in 1..(Len(st) - 2) : LossBuyLoss(st, i)
            /\ HasType(insights, "Averaging Down") =>
                  Fires(insights, "Averaging Down", "High")

\* the only window that qualifies ends with a sale on another symbol, and its
\* middle trade is a win
C14_Witness ==
    /\ pc = "analyzed"
    /\ Len(trades) = 3
    /\ trades[2].pnl > 0
    /\ trades[3].symbol # trades[1].symbol
    /\ trades[3].action = "SELL"
    /\ Fires(insights, "Averaging Down", "High")

MaxFomoTrades == 3      \* longest session of SpecFomo

\* a win and a loss on each of two symbols
FomoAttrs ==
    {[symbol |-> sym, action |-> "BUY", pnl |-> p, status |-> "CLOSED"] :
        sym \in {"BTCUSD", "EURUSD"}, p \in {50, -50}}

\* gaps of exactly 5 minutes and of 5 minutes and a second
FomoSessions(n) == BothOrders(ChronoSessions(FomoAttrs, {300, 301}, n))

InitFomo == InitSession(DefaultSwitches, FomoSessions(MaxFomoTrades))

SpecFomo == InitFomo /\ [][NextAnalyze]_vars

\* trade i of st is a win and trade i+1 is on the same symbol at most 5
\* minutes later
WinThenReentry(st, i) ==
    /\ st[i].pnl > 0
    /\ st[i + 1].symbol = st[i].symbol
    /\ PairParses(st, i)
    /\ Gap(st, i) <= 5 * 60

(* C12: analyze_session reports FOMO Trading, severity Medium, if and only
   if the sorted session of n trades contains an adjacent pair i, i+1, for
   any i with 0 <= i < n-1, such that trade i has pnl > 0 and trade i+1 has
   the same symbol and is at most 5 minutes after trade i. *)
C12_FomoIffWinThenReentry ==
    Analyzed =>
        LET st == sorted(trades)
        IN  /\ HasType(insights, "FOMO Trading") <=>
                  \E i \in 1..(Len(st) - 1) : WinThenReentry(st, i)
            /\ HasType(insights, "FOMO Trading") =>
                  Fires(insights, "FOMO Trading", "Medium")

MaxImpulsiveTrades == 5     \* longest session of SpecImpulsive

\* gaps of a second, of exactly a minute and of a minute and a second
ImpulsiveSessions(n) ==
    BothOrders(ChronoSessions({Closed(-50)}, {1, 60, 61}, n))

InitImpulsive == InitSession(DefaultSwitches, ImpulsiveSessions(MaxImpulsiveTrades))

SpecImpulsive == InitImpulsive /\ [][NextAnalyze]_vars

\* the adjacent pairs of st at most 60 seconds apart
RapidPairs(st) ==
    {i \in 1..(Len(st) - 1) : PairParses(st, i) /\ Gap(st, i) <= 60}

(* C15: analyze_session reports Impulsive Decisions, severity Medium, if
   and only if at least 3 adjacent pairs of trades of the sorted session are
   each at most 60 seconds apart; each pair counts on its own, the pairs
   need not be contiguous, and a gap of exactly 60 seconds counts. *)
C15_ImpulsiveIffThreeRapidPairs ==
    Analyzed =>
        /\ HasType(insights, "Impulsive Decisions") <=>
              Cardinality(RapidPairs(sorted(trades))) >= 3
        /\ HasType(insights, "Impulsive Decisions") =>
              Fires(insights, "Impulsive Decisions", "Medium")

\* three pairs exactly 60 seconds apart, the third pair of the session being
\* 61 seconds apart
C15_Witness ==
    /\ pc = "analyzed"
    /\ Len(trades) = 5
    /\ Gap(trades, 1) = 60 /\ Gap(trades, 2) = 60
    /\ Gap(trades, 3) = 61 /\ Gap(trades, 4) = 60
    /\ Fires(insights, "Impulsive Decisions", "Medium")

MaxHesitationTrades == 11   \* longest session of SpecHesitation

\* gaps of exactly an hour and of an hour and a second
HesitationSessions(n) ==
    BothOrders(ChronoSessions({Closed(-50)}, {3600, 3601}, n))

InitHesitation == InitSession(DefaultSwitches, HesitationSessions(MaxHesitationTrades))

SpecHesitation == InitHesitation /\ [][NextAnalyze]_vars

\* the adjacent pairs of st more than 60 minutes apart
LargeGaps(st) ==
    {i \in 1..(Len(st) - 1) : PairParses(st, i) /\ Gap(st, i) > 60 * 60}

(* C19: analyze_session reports Hesitation, severity Medium, if and only
   if the session has more than 3 trades and the adjacent pairs of the
   sorted session more than 60 minutes apart are at least 30% of its n-1
   adjacent pairs; a session of exactly 3 trades never fires and a gap of
   exactly 60 minutes is not counted. *)
C19_HesitationIffLargeGapShare ==
    Analyzed =>
        LET st == sorted(trades)
        IN  /\ HasType(insights, "Hesitation / Analysis Paralysis") <=>
                  /\ Len(st) > 3
                  /\ 10 * Cardinality(LargeGaps(st)) >= 3 * (Len(st) - 1)
            /\ HasType(insights, "Hesitation / Analysis Paralysis") =>
                  Fires(insights, "Hesitation / Analysis Paralysis", "Medium")
            /\ Len(st) = 3 => ~HasType(insights, "Hesitation / Analysis Paralysis")

\* 11 trades, 3 of their 10 gaps above an hour (exactly 30%) and the other 7
\* of exactly an hour
C19_Witness ==
    /\ pc = "analyzed"
    /\ Len(trades) = 11
    /\ Cardinality(LargeGaps(sorted(trades))) = 3
    /\ Fires(insights, "Hesitation / Analysis Paralysis", "Medium")

MaxHoldTrades == 4      \* longest session of SpecHold

\* open and closed positions, wins, losses and a break-even trade, two symbols
HoldAttrs ==
    { [symbol |-> "BTCUSD", action |-> "BUY", pnl |->  50, status |-> "OPEN"],
      [symbol |-> "BTCUSD", action |-> "BUY", pnl |-> -50, status |-> "OPEN"],
      [symbol |-> "BTCUSD", action |-> "BUY", pnl |-> -50, status |-> "CLOSED"],
      [symbol |-> "BTCUSD", action |-> "BUY", pnl |->   0, status |-> "OPEN"],
      [symbol |-> "EURUSD", action |-> "BUY", pnl |->  50, status |-> "OPEN"] }

\* holding times of 18, 36 and 54 seconds: each two and three times another
HoldSessions(n) == ChronoSessions(HoldAttrs, {18, 36, 54}, n)

InitHold == InitSession(DefaultSwitches, HoldSessions(MaxHoldTrades))

SpecHold == InitHold /\ [][NextAnalyze]_vars

\* the adjacent pairs i, i+1 of st that are sampled: trade i is OPEN and
\* trade i+1 has its symbol; sign -1 selects the pairs with pnl(i+1) < 0,
\* sign 1 those with pnl(i+1) > 0
SampledPairs(st, sign) ==
    {i \in 1..(Len(st) - 1) :
        /\ st[i].status = "OPEN"
        /\ st[i + 1].symbol = st[i].symbol
        /\ PairParses(st, i)
        /\ IF sign < 0 THEN st[i + 1].pnl < 0 ELSE st[i + 1].pnl > 0}

\* the sum of the gaps (seconds) of the pairs in S
RECURSIVE GapSum(_, _)
GapSum(st, S) ==
    IF S = {} THEN 0
    ELSE LET i == CHOOSE j \in S : TRUE
         IN  Gap(st, i) + GapSum(st, S \ {i})

\* the average gap of the pairs in L is more than k times that of the pairs in W
AverageExceeds(st, L, W, k) ==
    GapSum(st, L) * Cardinality(W) > k * GapSum(st, W) * Cardinality(L)

(* C17: Loss Aversion samples only the adjacent pairs i, i+1 where trade i
   is OPEN and trade i+1 has the same symbol, the gap being a loss sample
   when pnl(i+1) < 0 and a win sample when pnl(i+1) > 0; analyze_session
   reports it, severity High, if and only if both sample sets are non-empty
   and the average loss duration is strictly greater than 2 times the
   average win duration. *)
C17_LossAversionIffTwiceAsLong ==
    Analyzed =>
        \A st \in {sorted(trades)} :
        \A L \in {SampledPairs(st, -1)}, W \in {SampledPairs(st, 1)} :
            /\ HasType(insights, "Loss Aversion") <=>
                  L # {} /\ W # {} /\ AverageExceeds(st, L, W, 2)
            /\ HasType(insights, "Loss Aversion") =>
                  Fires(insights, "Loss Aversion", "High")

(* C18: over the same samples analyze_session reports Quick Profit Taking,
   severity Medium, if and only if both sample sets are non-empty, the
   average duration before a win is strictly less than 3 minutes, and the
   average duration before a loss is strictly greater than 3 times that win
   average. *)
C18_QuickProfitIffThriceAsLong ==
    Analyzed =>
        \A st \in {sorted(trades)} :
        \A L \in {SampledPairs(st, -1)}, W \in {SampledPairs(st, 1)} :
            /\ HasType(insights, "Quick Profit Taking") <=>
                  /\ L # {} /\ W # {}
                  /\ GapSum(st, W) < 3 * 60 * Cardinality(W)
                  /\ AverageExceeds(st, L, W, 3)
            /\ HasType(insights, "Quick Profit Taking") =>
                  Fires(insights, "Quick Profit Taking", "Medium")

-----------------------------------------------------------------------------
(* The risk score and the order of the insights *)

(* C21: calculate_risk_score is order-independent: every reordering of the
   insight list it was handed scores the same as the list itself, the clamp
   to [0,100] being applied to the final sum and not to the partial sums. *)
C21_ScoreIgnoresOrder ==
    pc = "scored" =>
        \A other \in Reorderings(insights) : calculate_risk_score(other) = risk_score

\* Positive, Positive, High, High: the partial sums dip to -40 before the
\* total reaches 10, and the reverse order passes 50 on the way
C21_Witness ==
    /\ pc = "scored"
    /\ Len(insights) = 4
    /\ insights[1].type = "Calculated Risk" /\ insights[2].type = "Calculated Risk"
    /\ insights[3].type = "Revenge Trading" /\ insights[4].type = "Revenge Trading"
    /\ risk_score = 10

-----------------------------------------------------------------------------
(* The three switches *)

SwitchNames == {"check_revenge_trading", "check_overtrading", "check_emotional_patterns"}

\* the switch whose group holds the detector of pattern type t
GroupOf(t) ==
    IF t = "Revenge Trading" THEN "check_revenge_trading"
    ELSE IF t = "Overtrading" THEN "check_overtrading"
    ELSE "check_emotional_patterns"

IsDetectorInsight(x) == Rank(x.type) > 0

\* the insights of list that a detector returned, in their order
DetectorInsights(list) == SelectSeq(list, IsDetectorInsight)

\* list without the insights of the group of switch k
WithoutGroup(list, k) ==
    LET Other(x) == GroupOf(x.type) # k
    IN  SelectSeq(list, Other)

(* C22: each of the three switches enables or disables only its own group
   (Revenge Trading; Overtrading; the eight detectors of the emotional
   suite): for a non-empty session analysed by an agent with a switch on, the
   agent that differs only in having that switch off returns the same
   detector insights less those of the switch's group, in the same relative
   order, and returns the lone "Disciplined" fallback exactly when nothing is
   left; and the result holds "Disciplined" iff it holds no detector insight. *)
C22_SwitchRemovesOnlyItsGroup ==
    (pc = "analyzed" /\ trades # <<>>) =>
        /\ \A k \in SwitchNames :
              Self[k] =>
                  LET off  == [Self EXCEPT ![k] = FALSE]
                      res  == analyze_session(off, trades)
                      kept == WithoutGroup(DetectorInsights(insights), k)
                  IN  /\ DetectorInsights(res) = kept
                      /\ res = (IF kept = <<>> THEN <<Disciplined>> ELSE kept)
        /\ HasType(insights, "Disciplined") <=> DetectorInsights(insights) = <<>>
        /\ \A i \in 1..Len(insights) :
              IsDetectorInsight(insights[i]) => Self[GroupOf(insights[i].type)]

\* all three groups fired; without the revenge switch the other insights stay
C22_Witness ==
    /\ pc = "analyzed"
    /\ check_revenge_trading /\ check_overtrading /\ check_emotional_patterns
    /\ Len(insights) >= 3
    /\ insights[1].type = "Revenge Trading"
    /\ insights[2].type = "Overtrading"
    /\ analyze_session([Self EXCEPT !["check_revenge_trading"] = FALSE], trades)
          = Tail(insights)

-----------------------------------------------------------------------------
(* Sessions with timestamps that do not parse *)

MaxMalformedTrades == 4 \* longest session of SpecMalformed drawn from Chrono
MaxMalformed == 2       \* most unparseable timestamps in one session

\* session s with second 61 written into the timestamps of the events at the
\* positions of B: "09:01:61" is a string strptime rejects
Garble(s, B) ==
    [k \in 1..Len(s) |->
        IF k \in B
        THEN [s[k] EXCEPT !.timestamp = <<s[k].timestamp[1], s[k].timestamp[2], 61>>]
        ELSE s[k]]

\* the sessions of chrono with at most m timestamps garbled
Garbled(chrono, m) ==
    UNION {{Garble(s, B) : B \in {X \in SUBSET (1..Len(s)) : Cardinality(X) <= m}} :
              s \in chrono}

\* an open BTCUSD purchase that won and one that lost 200
MalformedAttrs ==
    { [symbol |-> "BTCUSD", action |-> "BUY", pnl |->   50, status |-> "OPEN"],
      [symbol |-> "BTCUSD", action |-> "BUY", pnl |-> -200, status |-> "OPEN"] }

\* sessions of 10 and more losses a minute apart, for the overtrading check
LongLosses(n) ==
    {Chrono([i \in 1..k |-> Closed(-50)], [i \in 1..(k - 1) |-> 60]) : k \in 10..n}

\* gaps of a minute and of 61 minutes; up to MaxMalformed timestamps garbled
MalformedSessions(n, m, long) ==
    Garbled(ChronoSessions(MalformedAttrs, {60, 61 * 60}, n), m)
    \cup Garbled(LongLosses(long), 1)

InitMalformed ==
    InitSession(DefaultSwitches,
                MalformedSessions(MaxMalformedTrades, MaxMalformed, MaxLongTrades))

SpecMalformed == InitMalformed /\ [][NextAnalyze]_vars

Parses(t) == strptime(t.timestamp) # ValueError

SomeMalformed(ts) == \E i \in 1..Len(ts) : ~Parses(ts[i])

\* the positions i <= j of st from which every trade up to j is a loss, and
\* whose own timestamp parses: the timed losses of the streak ending at j
TimedStreak(st, j) ==
    {i \in 1..j : Parses(st[i]) /\ \A k \in i..j : st[k].pnl < 0}

\* the third largest element of a set S of at least three positions
ThirdLast(S) ==
    CHOOSE a \in S : Cardinality({b \in S : b >= a}) = 3

\* some parseable loss of st ends a streak with three timed losses, the last
\* three of them at most 10 minutes apart
TimedLossTripleWithin10(st) ==
    \E j \in 1..Len(st) :
        /\ st[j].pnl < 0 /\ Parses(st[j])
        /\ Cardinality(TimedStreak(st, j)) >= 3
        /\ strptime(st[j].timestamp)
             - strptime(st[ThirdLast(TimedStreak(st, j))].timestamp) <= 10 * 60

\* the session with every garbled timestamp written as the well-formed one
Repaired(ts) ==
    [k \in 1..Len(ts) |->
        IF Parses(ts[k]) THEN ts[k]
        ELSE [ts[k] EXCEPT !.timestamp = <<ts[k].timestamp[1], ts[k].timestamp[2], 0>>]]

\* what holds of the detectors other than FOMO Trading in a session with
\* unparseable timestamps: st is the sorted session, good the sorted session
\* with the timestamps well-formed
OthersSkipOnlyTheirPairs(st, good) ==
    \A L \in {SampledPairs(st, -1)}, W \in {SampledPairs(st, 1)} :
        /\ Len(insights) >= 1
        /\ \A i \in 1..Len(insights) :
              insights[i].type = "Disciplined" \/ Rank(insights[i].type) > 0
        /\ HasType(insights, "Revenge Trading") <=> TimedLossTripleWithin10(st)
        /\ HasType(insights, "Impulsive Decisions") <=>
              Cardinality(RapidPairs(st)) >= 3
        /\ HasType(insights, "Loss Aversion") <=>
              L # {} /\ W # {} /\ AverageExceeds(st, L, W, 2)
        /\ HasType(insights, "Quick Profit Taking") <=>
              /\ L # {} /\ W # {}
              /\ GapSum(st, W) < 3 * 60 * Cardinality(W)
              /\ AverageExceeds(st, L, W, 3)
        /\ HasType(insights, "Hesitation / Analysis Paralysis") <=>
              /\ Len(st) > 3
              /\ 10 * Cardinality(LargeGaps(st)) >= 3 * (Len(st) - 1)
        /\ InsightOf(insights, "Overtrading") = detect_overtrading(good)
        /\ InsightOf(insights, "Ego Trading") = detect_ego_trading(good)
        /\ InsightOf(insights, "Calculated Risk") = detect_calculated_risk(good)
        /\ InsightOf(insights, "Averaging Down") = detect_averaging_down(good)

(* C23: a malformed timestamp never aborts the analysis: analyze_session
   returns a non-empty insight list for a session with unparseable
   timestamps; each timestamp-based detector leaves out only what involves an
   unparseable timestamp (Revenge Trading the loss event, which stays in the
   streak but is not timed; FOMO Trading, Impulsive Decisions, Loss Aversion,
   Quick Profit Taking and Hesitation the adjacent pair) and decides on all
   the other pairs; and Overtrading, Ego Trading, Calculated Risk and
   Averaging Down, which read no timestamp, report what they report for the
   session with the timestamps well-formed. *)
C23_MalformedTimestampSkipsOnlyItsPairs ==
    (pc = "analyzed" /\ SomeMalformed(trades)) =>
        \A st \in {sorted(trades)} :
            /\ OthersSkipOnlyTheirPairs(st, sorted(Repaired(trades)))
            /\ HasType(insights, "FOMO Trading") <=>
                  \E i \in 1..(Len(st) - 1) : WinThenReentry(st, i)

-----------------------------------------------------------------------------
(* Repeated calls *)

(* C24: a call of analyze_session leaves the caller's trade list (its order
   and every event's fields) and the agent's three switches as they were,
   and the agent keeps no state between calls: after any sequence of earlier
   calls, a call on a list analysed before returns the insight list that the
   earlier call returned. *)
C24_AnalyzeKeepsInputAndAgent ==
    [][(pc = "idle" /\ pc' = "analyzed") =>
          /\ trades' = trades
          /\ Self' = Self
          /\ \A k \in 1..Len(earlier) :
                earlier[k].trades = trades => insights' = earlier[k].insights]_vars

\* the newest-first losses were analysed, then another list, then the losses
\* again: the list is still newest first and the result is the first one
C24_Witness ==
    /\ pc = "analyzed"
    /\ Len(earlier) = 2
    /\ earlier[1].trades = trades
    /\ earlier[2].trades # trades
    /\ earlier[2].insights # insights
    /\ trades # sorted(trades)
    /\ HasType(insights, "Revenge Trading")
    /\ insights = earlier[1].insights

-----------------------------------------------------------------------------
(* Sessions in which a pattern occurs more than once *)

MaxFirstTrades == 6     \* longest session of SpecFirst

\* a BTCUSD win, a BTCUSD loss of 200 and a EURUSD loss of 300
FirstAttrs ==
    { [symbol |-> "BTCUSD", action |-> "BUY", pnl |->   50, status |-> "CLOSED"],
      [symbol |-> "BTCUSD", action |-> "BUY", pnl |-> -200, status |-> "CLOSED"],
      [symbol |-> "EURUSD", action |-> "BUY", pnl |-> -300, status |-> "CLOSED"] }

\* the gaps of a session of k events: a minute throughout, 8 minutes
\* throughout, or 8 minutes twice and a minute from then on
GapProfiles(k) ==
    { [i \in 1..(k - 1) |-> 60],
      [i \in 1..(k - 1) |-> 8 * 60],
      [i \in 1..(k - 1) |-> IF i <= 2 THEN 8 * 60 ELSE 60] }

FirstSessions(n) ==
    UNION {{Chrono(a, g) : a \in [1..k -> FirstAttrs], g \in GapProfiles(k)} :
              k \in 0..n}

InitFirst == InitSession(DefaultSwitches, FirstSessions(MaxFirstTrades))

SpecFirst == InitFirst /\ [][NextAnalyze]_vars

\* the least element of a non-empty set of positions
First(S) == CHOOSE i \in S : \A j \in S : i <= j

\* the number of consecutive trades of st right before position j, position
\* j included when `with` is TRUE, whose pnl has the given sign
RunBefore(st, j, sign, with) ==
    LET last == IF with THEN j ELSE j - 1
        same(k) == IF sign < 0 THEN st[k].pnl < 0 ELSE st[k].pnl > 0
        starts == {i \in 1..(last + 1) : \A k \in i..last : same(k)}
    IN  last + 1 - First(starts)

\* trade j of st ends a streak of at least three losses the last three of
\* which are at most 10 minutes apart
RevengeQualifies(st, j) ==
    /\ RunBefore(st, j, -1, TRUE) >= 3
    /\ strptime(st[j].timestamp) - strptime(st[j - 2].timestamp) <= 10 * 60

\* trade j of st is a loss beyond 150 right after at least two wins
EgoQualifies(st, j) ==
    st[j].pnl < -150 /\ RunBefore(st, j, 1, FALSE) >= 2

(* C25: Revenge Trading, Ego Trading and Averaging Down return at the first
   qualifying position of one left-to-right scan of the sorted session: the
   Revenge Trading insight cites the streak length and the span of the last
   three losses at the earliest trade where the loss streak is at least 3
   and those three losses are at most 10 minutes apart; the Ego Trading
   insight cites the earliest loss beyond 150 that follows at least two wins,
   and the number of wins right before it; the Averaging Down insight cites
   the symbol of the earliest loss, same-symbol BUY, loss triple; later or
   worse occurrences do not change the result. *)
C25_FirstQualifyingPositionIsCited ==
    (pc = "analyzed" /\ AllParse(trades)) =>
        \A st \in {sorted(trades)} :
        LET R == {j \in 1..Len(st) : RevengeQualifies(st, j)}
            E == {j \in 1..Len(st) : EgoQualifies(st, j)}
            A == {i \in 1..(Len(st) - 2) : LossBuyLoss(st, i)}
        IN  /\ InsightOf(insights, "Revenge Trading") =
                  (IF R = {} THEN NoneValue
                   ELSE [type |-> "Revenge Trading", severity |-> "High",
                         details |->
                            [consecutive_losses |-> RunBefore(st, First(R), -1, TRUE),
                             minutes |-> (strptime(st[First(R)].timestamp)
                                          - strptime(st[First(R) - 2].timestamp)) \div 60]])
            /\ InsightOf(insights, "Ego Trading") =
                  (IF E = {} THEN NoneValue
                   ELSE [type |-> "Ego Trading", severity |-> "High",
                         details |-> [wins_streak |-> RunBefore(st, First(E), 1, FALSE),
                                      loss |-> Abs(st[First(E)].pnl)]])
            /\ InsightOf(insights, "Averaging Down") =
                  (IF A = {} THEN NoneValue
                   ELSE [type |-> "Averaging Down", severity |-> "High",
                         details |-> [symbol |-> st[First(A)].symbol]])

\* two wins and a BTCUSD loss of 200, then two wins and a EURUSD loss of 300:
\* the first, smaller loss is the one cited
C25_Witness ==
    /\ pc = "analyzed"
    /\ Len(trades) = 6
    /\ EgoQualifies(trades, 3) /\ EgoQualifies(trades, 6)
    /\ trades[3].pnl = -200 /\ trades[6].pnl = -300
    /\ InsightOf(insights, "Ego Trading").details = [wins_streak |-> 2, loss |-> 200]

-----------------------------------------------------------------------------
(* The score of the sentinels *)

IsSentinel(x) == x.type \in {"No Activity", "Disciplined"}

\* insight x carrying the severity value "N/A"
Labelled(x) == [type |-> x.type, severity |-> "N/A", details |-> x.details]

(* C26: an insight without a severity field, which is how analyze_session
   emits both sentinels "No Activity" and "Disciplined", is weighted by
   calculate_risk_score as Medium, +15, and not as the +10 of a severity
   that is present but not in the table; so the score of an analyze_session
   result is 15 whenever the result is a sentinel, and the score of a result
   whose only insight is Calculated Risk is 0. *)
C26_SentinelScoresAsMedium ==
    pc = "scored" =>
        /\ \A i \in 1..Len(insights) :
              IsSentinel(insights[i]) =>
                  /\ Len(insights) = 1
                  /\ "severity" \notin DOMAIN insights[i]
                  /\ risk_score = 15
                  /\ calculate_risk_score(<<Labelled(insights[i])>>) = 10
        /\ trades = <<>> => risk_score = 15
        /\ (Len(insights) = 1 /\ insights[1].type = "Calculated Risk") => risk_score = 0

\* a session in which no enabled detector fired: "Disciplined" scored 15
C26_Witness ==
    /\ pc = "scored"
    /\ Len(trades) >= 3
    /\ insights = <<Disciplined>>
    /\ "severity" \notin DOMAIN insights[1]
    /\ risk_score = 15

-----------------------------------------------------------------------------
(* Sessions with a timestamp field written without its leading zero *)

MaxUnpaddedTrades == 4  \* longest session of SpecUnpadded

\* two purchases left open at 10:10 and 11:20, and four closed trades, two of
\* them stamped "10:5:00" and "11:8:00"; as strings
\* "10:10:00" < "10:12:00" < "10:5:00" < "11:20:00" < "11:50:00" < "11:8:00"
UnpaddedPool ==
    { Trade(<<10, 10, 0>>,   "BTCUSD", "BUY",  50, "OPEN"),
      Trade(<<10, 12, 0>>,   "BTCUSD", "BUY",  50, "CLOSED"),
      Trade(<<10, 5, 0, 2>>, "BTCUSD", "BUY",  50, "CLOSED"),
      Trade(<<11, 20, 0>>,   "BTCUSD", "BUY", -50, "OPEN"),
      Trade(<<11, 50, 0>>,   "BTCUSD", "BUY", -50, "CLOSED"),
      Trade(<<11, 8, 0, 2>>, "BTCUSD", "BUY", -50, "CLOSED") }

InitUnpadded == InitSession(DefaultSwitches, Lists(UnpaddedPool, MaxUnpaddedTrades))

SpecUnpadded == InitUnpadded /\ [][NextAnalyze]_vars

(* C27: in every analyze_session result computed with the emotional suite
   enabled on events whose timestamps parse, "Quick Profit Taking" is present
   only if "Loss Aversion" is present too: Quick Profit Taking never fires
   alone. *)
C27_QuickProfitImpliesLossAversion ==
    (pc = "analyzed" /\ check_emotional_patterns /\ AllParse(trades)) =>
        (HasType(insights, "Quick Profit Taking") => HasType(insights, "Loss Aversion"))

-----------------------------------------------------------------------------
(* The risk level and the predictions list *)

(* C28: for every streak state and every priors mapping predict_next_risk
   returns the risk level low if and only if its predictions list is empty:
   a positive mean confidence needs a fired prediction, so the "mean
   confidence > 0.5" disjunct of the medium rule never decides the level
   (the level is high for two predictions or a mean above 0.7, else medium
   for one prediction, else low), and low never comes with a non-empty
   predictions list. *)
C28_LowIffNoPrediction ==
    Predicted =>
        /\ prediction.risk_level = "low" <=> prediction.high_risk_predictions = <<>>
        /\ prediction.high_risk_predictions = <<>> => prediction.confidence = 0
        /\ MeanExceeds(50) => FiredCount >= 1
        /\ prediction.risk_level =
              (IF FiredCount >= 2 \/ MeanExceeds(70) THEN "high"
               ELSE IF FiredCount >= 1 THEN "medium"
               ELSE "low")

\* one prediction with a confidence of 0.41, below 0.5: medium all the same
C28_Witness ==
    /\ pc = "predicted"
    /\ prediction.high_risk_predictions = <<"FOMO Trading">>
    /\ FiredTotal = 41
    /\ prediction.risk_level = "medium"

(* C29: when predict_next_risk is called without priors (None or an empty
   mapping, so that every tendency is 0.3), Revenge Trading is the only
   pattern that can be predicted, the risk level is high exactly when
   consecutive_losses >= 3 and low otherwise, and the level medium is not
   reached for any values of the three counters. *)
C29_NoPriorsHighOrLow ==
    (Predicted /\ ~Truthy(historical_tendencies)) =>
        /\ Priors = [revenge |-> 30, fomo |-> 30, ego |-> 30, impulsive |-> 30]
        /\ prediction.high_risk_predictions =
              (IF Losses >= 3 THEN <<"Revenge Trading">> ELSE <<>>)
        /\ prediction.risk_level = (IF Losses >= 3 THEN "high" ELSE "low")
        /\ prediction.risk_level # "medium"

\* no priors, three wins and five recent trades but two losses only: low
C29_Witness ==
    /\ pc = "predicted"
    /\ historical_tendencies = NoneValue
    /\ Losses = 2 /\ Wins = 3 /\ Recent = 5
    /\ prediction.high_risk_predictions = <<>>
    /\ prediction.risk_level = "low"

\* low < medium < high
LevelRank(level) ==
    IF level = "low" THEN 0 ELSE IF level = "medium" THEN 1 ELSE 2

\* the counter states that differ from the current one in one counter, which
\* is larger (up to one above the largest of StatePool)
Raised ==
    {[consecutive_losses |-> l, consecutive_wins |-> Wins, trades_in_last_hour |-> Recent] :
        l \in (Losses + 1)..(MaxLosses + 1)}
    \cup
    {[consecutive_losses |-> Losses, consecutive_wins |-> w, trades_in_last_hour |-> Recent] :
        w \in (Wins + 1)..(MaxWins + 1)}
    \cup
    {[consecutive_losses |-> Losses, consecutive_wins |-> Wins, trades_in_last_hour |-> r] :
        r \in (Recent + 1)..(MaxRecent + 1)}

(* C30: for fixed priors in [0,1] the risk level predict_next_risk returns
   is monotone in each streak counter: with consecutive_losses,
   consecutive_wins or trades_in_last_hour alone increased, the other two
   kept, the level is never lower in the order low < medium < high, although
   an added prediction can lower the mean confidence. *)
C30_LevelMonotoneInCounters ==
    Predicted =>
        \A higher \in Raised :
            LevelRank(predict_next_risk(higher, historical_tendencies, TRUE).risk_level)
                >= LevelRank(prediction.risk_level)

\* a second win added FOMO Trading at 0.41 to Revenge Trading at 0.85: the
\* mean fell from 0.85 to 0.63 and the level stayed high
C30_Witness ==
    /\ pc = "predicted"
    /\ Losses = 4 /\ Wins = 2
    /\ FiredConfidences = <<85, 41>>
    /\ prediction.confidence = 63
    /\ prediction.risk_level = "high"
    /\ predict_next_risk([current_session_state EXCEPT !.consecutive_wins = 1],
                         historical_tendencies, TRUE)
          = [high_risk_predictions |-> <<"Revenge Trading">>,
             risk_level |-> "high",
             confidence |-> 85,
             recommended_action |->
                "STOP: Do not take the next trade. Take a 15-minute break."]

=============================================================================
